---- MODULE Spec2Model ----
(***************************************************************************)
(* A model of the gamification core of the KosovAR client                  *)
(* (src/src/lib/services/auth.ts): the XP ledger (calculateLevel,          *)
(* getXPToNextLevel), the module-level notification bus (levelUpListeners, *)
(* xpChangeListeners) and the session store useAuthStore with its          *)
(* asynchronous updateUserXP award.                                        *)
(*                                                                         *)
(* The browser runs one event loop: the code between two awaits of a       *)
(* handler is one atomic step, and a listener runs synchronously inside    *)
(* the publish that invokes it.  The hosted service is the table           *)
(* perdoruesit and the auth session.                                       *)
(***************************************************************************)
EXTENDS Integers, Sequences, FiniteSets, Bags, TLC

\* ------------------------------------------------------------ bounds
\* updateUserXP calls that may be in flight at once
MaxCalls == 2
\* updateUserXP calls made in one run of the model
MaxAwards == 2
\* registrations held by the two listener arrays together
MaxListeners == 3
\* registrations the views of the session store hold at once
MaxViewListeners == 1
\* motivational quotes the model draws from (the pool has six)
MaxQuote == 2
\* the stored XP stays within -MaxDebt .. MaxXP
MaxXP == 100
MaxDebt == 50
\* inputs of the pure ledger functions: 0 .. MaxLedgerXP
MaxLedgerXP == 160

\* ------------------------------------------------------------ constants
\* width of one level band, auth.ts:48 and auth.ts:54
LevelSpan == 50
\* level and XP a registration inserts, auth.ts:110 and auth.ts:111
SignUpLevel == 0
SignUpXP == 0

\* the identities of the hosted table: perdorues_id 1 and 2
Users == {1, 2}
Quotes == 1..MaxQuote
\* deltaXP arguments: a penalty, a no-op, an award inside a band, an award
\* that crosses one band and one that crosses two
Deltas == {0 - 50, 0, 25, 100}

VARIABLES
    perdoruesit,             \* hosted table: perdorues_id -> row (or NoRow)
    user,                    \* useAuthStore.user (NullUser for null)
    lastCongratulatedLevel,  \* auth.ts:59, a partial map userId -> level
    levelUpListeners,        \* auth.ts:60
    xpChangeListeners,       \* auth.ts:61
    calls,                   \* the updateUserXP calls in flight, a bag of frames
    awards,                  \* number of updateUserXP calls made so far
    last,                    \* history: the latest step of an updateUserXP call
    congratulated,           \* history: level-up levels published per identity
    delivery,                \* history: the publish just made by a direct notify
    ledger,                  \* input and result of a pure ledger evaluation
    issuesTable,             \* hosted table issues: id -> row
    ndryshimet,              \* hosted table ndryshimet: the audit records
    issues,                  \* useIssueStore.issues
    loading,                 \* useIssueStore.loading
    error,                   \* useIssueStore.error ("null" for null)
    issueCalls,              \* the issue-store operations in flight, a set of frames
    issueOps,                \* number of issue-store operations started so far
    remoteWrites,            \* number of writes other clients have made so far
    fetched,                 \* history: the fetchIssues calls that resolved with
                             \* a response, in order of resolution
    lastIssue,               \* history: how the latest issue-store operation ended
    accepted,                \* history: the field values the hosted table has held
    likes,                   \* hosted table perdoruesit_likes of one issue:
                             \* perdorues_id -> number of rows
    views,                   \* the like views: kind, likeCount, isLiked, isLoading
    likeCalls,               \* the handleLike calls in flight, a set of frames
    toggles,                 \* number of handleLike calls started so far
    likeLog,                 \* history: the handleLike calls that ended, in order
    mounted,                 \* the views React has mounted
    isOpen,                  \* prop isOpen of the mounted IssueDetailModal
    subscriptions,           \* the realtime channels and auth-change listeners
                             \* the hosted client holds
    cleanups,                \* the subscriptions the registered effect cleanups
                             \* will unsubscribe
    sessionCalls,            \* the getSession calls of the modal's effect in flight
    mounts,                  \* number of effect set-ups so far
    unsubscribed,            \* history: bag of the subscriptions unsubscribed
    register,                \* the registration form: its fields, loading, error
    registerCalls,           \* the handleSubmit calls awaiting register_user
    registerRequests,        \* history: the register_user requests sent
    registerToasts,          \* history: the toasts of the registration form
    submits                  \* number of handleSubmit calls so far

issueVars == <<issuesTable, ndryshimet, issues, loading, error, issueCalls,
               issueOps, remoteWrites, fetched, lastIssue, accepted>>

likeVars == <<likes, views, likeCalls, toggles, likeLog>>

mountVars == <<mounted, isOpen, subscriptions, cleanups, sessionCalls, mounts,
               unsubscribed>>

registerVars == <<register, registerCalls, registerRequests, registerToasts,
                  submits>>

pageVars == <<likeVars, mountVars, registerVars>>

vars == <<perdoruesit, user, lastCongratulatedLevel,
          levelUpListeners, xpChangeListeners, calls, awards, last,
          congratulated, delivery, ledger, issueVars, pageVars>>

storeVars == <<perdoruesit, user, lastCongratulatedLevel, calls, awards,
               last, congratulated>>

\* ------------------------------------------------------------ XP ledger
\* Math.round in place of Math.floor: the level changes in the middle of a band
calculateLevelRounded(xp) ==
    ((xp + 25) \div LevelSpan) + 1

\* Math.floor(xp / 50) + 1; \div rounds toward minus infinity like Math.floor
calculateLevel(xp) ==
    (xp \div LevelSpan) + 1

\* the distance to the band's boundary taken modulo the band: 0 on a boundary
getXPToNextLevelModulo(xp) ==
    (LevelSpan - (xp % LevelSpan)) % LevelSpan

\* auth.ts:52-56
getXPToNextLevel(xp) ==
    LET nextLevel == calculateLevel(xp) + 1
        nextLevelXP == (nextLevel - 1) * LevelSpan
    IN  nextLevelXP - xp

\* ------------------------------------------------------------ notification bus
\* The callbacks the views may register.  A callback is identified by its
\* function object (the filter at auth.ts:66 compares with !==); what it does
\* when invoked is fixed by its code:
\*   "a", "b"   return normally (the Header and IssueDetailModal setState calls)
\*   "thrower"  throws
\*   "adder"    subscribes AddedByAdder on the channel that invoked it
\*   "once"     calls its own unsubscribe function
Thrower == "thrower"
Adder == "adder"
Once == "once"
AddedByAdder == "b"
Listeners == {"a", "b", Thrower, Adder, Once}
\* the callbacks registered by the views around the session store: what a
\* listener does matters to updateUserXP only when it throws
ViewListeners == {Thrower}

\* levelUpListeners.filter(l => l !== listener), auth.ts:66 and auth.ts:73
RECURSIVE Without(_, _)
Without(listeners, listener) ==
    IF listeners = <<>> THEN <<>>
    ELSE IF Head(listeners) = listener
         THEN Without(Tail(listeners), listener)
         ELSE <<Head(listeners)>> \o Without(Tail(listeners), listener)

\* The loop `for (const listener of xs) listener(v, quote)` of auth.ts:79-81
\* and auth.ts:86-88.  iter is the array object the loop iterates (its length
\* is read again at every step), cur is the array the module variable holds,
\* same tells whether they are still one object: push (auth.ts:64) mutates
\* the object the variable holds, filter (auth.ts:66) rebinds the variable to
\* a new array.  A throwing listener ends the loop and the exception leaves
\* the publish.  seen collects each invocation with the payload it received.
RECURSIVE Deliver(_, _, _, _, _, _)
Deliver(iter, cur, same, i, seen, payload) ==
    IF i > Len(iter)
    THEN [listeners |-> cur, invoked |-> seen, threw |-> FALSE]
    ELSE LET listener == iter[i]
             now == Append(seen, [listener |-> listener, payload |-> payload])
         IN  CASE listener = Thrower ->
                    [listeners |-> cur, invoked |-> now, threw |-> TRUE]
               [] listener = Adder ->
                    Deliver(IF same THEN Append(iter, AddedByAdder) ELSE iter,
                            Append(cur, AddedByAdder), same, i + 1, now, payload)
               [] listener = Once ->
                    Deliver(iter, Without(cur, listener), FALSE, i + 1, now, payload)
               [] OTHER ->
                    Deliver(iter, cur, same, i + 1, now, payload)

\* notifyLevelUp / notifyXPChange: one quote is drawn, then the loop runs
Notify(listeners, value, quote) ==
    Deliver(listeners, listeners, TRUE, 1, <<>>, <<value, quote>>)

NoDelivery ==
    [channel |-> "none", payload |-> <<0, 0>>, registered |-> <<>>,
     invoked |-> <<>>, threw |-> FALSE]

Published(channel, listeners, value, quote, d) ==
    [channel |-> channel, payload |-> <<value, quote>>, registered |-> listeners,
     invoked |-> d.invoked, threw |-> d.threw]

Registered == Len(levelUpListeners) + Len(xpChangeListeners)

subscribeToLevelUp(listener) ==
    /\ Registered < MaxListeners
    /\ levelUpListeners' = Append(levelUpListeners, listener)
    /\ delivery' = NoDelivery
    /\ UNCHANGED <<xpChangeListeners, ledger, issueVars, pageVars>>
    /\ UNCHANGED storeVars

subscribeToXPChange(listener) ==
    /\ Registered < MaxListeners
    /\ xpChangeListeners' = Append(xpChangeListeners, listener)
    /\ delivery' = NoDelivery
    /\ UNCHANGED <<levelUpListeners, ledger, issueVars, pageVars>>
    /\ UNCHANGED storeVars

\* the function subscribeToLevelUp returned for listener, called by its view
unsubscribeLevelUp(listener) ==
    /\ \E i \in 1..Len(levelUpListeners) : levelUpListeners[i] = listener
    /\ levelUpListeners' = Without(levelUpListeners, listener)
    /\ delivery' = NoDelivery
    /\ UNCHANGED <<xpChangeListeners, ledger, issueVars, pageVars>>
    /\ UNCHANGED storeVars

unsubscribeXPChange(listener) ==
    /\ \E i \in 1..Len(xpChangeListeners) : xpChangeListeners[i] = listener
    /\ xpChangeListeners' = Without(xpChangeListeners, listener)
    /\ delivery' = NoDelivery
    /\ UNCHANGED <<levelUpListeners, ledger, issueVars, pageVars>>
    /\ UNCHANGED storeVars

\* notifyLevelUp(level) on its own, for any level a caller may pass
notifyLevelUp(level) ==
    \E quote \in Quotes :
        LET d == Notify(levelUpListeners, level, quote)
        IN  /\ Len(d.listeners) + Len(xpChangeListeners) <= MaxListeners
            /\ levelUpListeners' = d.listeners
            /\ delivery' = Published("levelUp", levelUpListeners, level, quote, d)
            /\ UNCHANGED <<xpChangeListeners, ledger, issueVars, pageVars>>
            /\ UNCHANGED storeVars

notifyXPChange(xp) ==
    \E quote \in Quotes :
        LET d == Notify(xpChangeListeners, xp, quote)
        IN  /\ Len(d.listeners) + Len(levelUpListeners) <= MaxListeners
            /\ xpChangeListeners' = d.listeners
            /\ delivery' = Published("xpChange", xpChangeListeners, xp, quote, d)
            /\ UNCHANGED <<levelUpListeners, ledger, issueVars, pageVars>>
            /\ UNCHANGED storeVars

\* ------------------------------------------------------------ session store
NullUser == [perdorues_id |-> 0, pike_eksperience |-> 0, leveli |-> 0]
NoRow == [exists |-> FALSE, pike_eksperience |-> 0, leveli |-> 0]

Row(xp, level) == [exists |-> TRUE, pike_eksperience |-> xp, leveli |-> level]

\* the User object the store builds from a row (auth.ts:124-133, 202-212,
\* 265-275): level and XP are copied as stored
UserOf(id, row) ==
    [perdorues_id |-> id, pike_eksperience |-> row.pike_eksperience,
     leveli |-> row.leveli]

\* the frame of an updateUserXP call between two awaits: where it waits, its
\* arguments and its locals
Frame(pc, userId, deltaXP, currentXP, newXP, newLevel) ==
    [pc |-> pc, userId |-> userId, deltaXP |-> deltaXP, currentXP |-> currentXP,
     newXP |-> newXP, newLevel |-> newLevel]

\* what the updateUserXP call that ended last did: the step that ended it,
\* whether it resolved or rejected, and the events it published
NoLast == [op |-> "none", outcome |-> "none", levelUps |-> <<>>, xpChanges |-> <<>>]

Rejected(op) == [NoLast EXCEPT !.op = op, !.outcome = "rejected"]

\* signUp inserts the row with leveli 0 and pike_eksperience 0 and caches
\* the returned row; the table assigns the next perdorues_id.
signUp(id) ==
    /\ ~perdoruesit[id].exists
    /\ \A other \in Users : other < id => perdoruesit[other].exists
    /\ perdoruesit' = [perdoruesit EXCEPT ![id] = Row(SignUpXP, SignUpLevel)]
    /\ user' = UserOf(id, perdoruesit'[id])
    /\ UNCHANGED <<lastCongratulatedLevel, calls, awards, last, congratulated>>
    /\ UNCHANGED <<levelUpListeners, xpChangeListeners, delivery, ledger, issueVars, pageVars>>

\* signIn with a matching password caches the row it fetched (auth.ts:144-148,
\* 202-214).  A wrong email or password throws before any state is touched.
signIn(id) ==
    /\ perdoruesit[id].exists
    /\ user' = UserOf(id, perdoruesit[id])
    /\ UNCHANGED <<perdoruesit, lastCongratulatedLevel, calls, awards, last, congratulated>>
    /\ UNCHANGED <<levelUpListeners, xpChangeListeners, delivery, ledger, issueVars, pageVars>>

\* signOut when the hosted signOut succeeds (auth.ts:233); when it fails only
\* error and loading are set.
signOut ==
    /\ user # NullUser
    /\ user' = NullUser
    /\ UNCHANGED <<perdoruesit, lastCongratulatedLevel, calls, awards, last, congratulated>>
    /\ UNCHANGED <<levelUpListeners, xpChangeListeners, delivery, ledger, issueVars, pageVars>>

\* getSession with a hosted session of identity id: the cached identity
\* becomes that identity's row (auth.ts:250-276).  The hosted session is kept
\* by the service and shared by every tab: it may be any identity's.
getSession(id) ==
    /\ perdoruesit[id].exists
    /\ user' = UserOf(id, perdoruesit[id])
    /\ user' # user
    /\ UNCHANGED <<perdoruesit, lastCongratulatedLevel, calls, awards, last, congratulated>>
    /\ UNCHANGED <<levelUpListeners, xpChangeListeners, delivery, ledger, issueVars, pageVars>>

\* getSession without a hosted session (auth.ts:280-283); a failing
\* getSession leaves user as it is.
getSessionNone ==
    /\ user # NullUser
    /\ user' = NullUser
    /\ UNCHANGED <<perdoruesit, lastCongratulatedLevel, calls, awards, last, congratulated>>
    /\ UNCHANGED <<levelUpListeners, xpChangeListeners, delivery, ledger, issueVars, pageVars>>

\* ------------------------------------------------------------ updateUserXP
\* the XP of the cached identity in place of the stored one
FetchedCachedXP(userId) ==
    user.pike_eksperience

\* select('pike_eksperience') ... single(), then `data?.pike_eksperience || 0`
\* (auth.ts:292-298): the XP stored in the table when the select is served
FetchedXP(userId) ==
    LET stored == perdoruesit[userId].pike_eksperience
    IN  IF stored = 0 THEN 0 ELSE stored

\* auth.ts:299
NewXP(currentXP, deltaXP) ==
    currentXP + deltaXP

\* the comparison of auth.ts:311 with <= in place of <
IsLevelUpOrSame(marks, cached, userId, newLevel) ==
    (IF userId \in DOMAIN marks THEN marks[userId] ELSE cached.leveli) <= newLevel

\* (lastCongratulatedLevel[userId] ?? user.leveli) < newLevel, auth.ts:311
IsLevelUp(marks, cached, userId, newLevel) ==
    (IF userId \in DOMAIN marks THEN marks[userId] ELSE cached.leveli) < newLevel

\* The call up to its second await: the select is served and newXP, newLevel
\* are computed (auth.ts:292-300).  Calls with equal frames are
\* interchangeable, so the calls in flight are a bag.
updateUserXPFetch(userId, deltaXP) ==
    /\ BagCardinality(calls) < MaxCalls
    /\ awards < MaxAwards
    /\ awards' = awards + 1
    /\ perdoruesit[userId].exists
    /\ LET currentXP == FetchedXP(userId)
           newXP == NewXP(currentXP, deltaXP)
           newLevel == calculateLevel(newXP)
       IN  /\ newXP \in (0 - MaxDebt)..MaxXP
           /\ calls' = calls (+) SetToBag({Frame("fetched", userId, deltaXP,
                                                 currentXP, newXP, newLevel)})
    /\ UNCHANGED <<perdoruesit, user, lastCongratulatedLevel, last, congratulated>>
    /\ UNCHANGED <<levelUpListeners, xpChangeListeners, delivery, ledger, issueVars, pageVars>>

\* `if (error) throw error` (auth.ts:297): the select fails (no such row, or the
\* service is unreachable) and the call rejects.
updateUserXPFetchError ==
    /\ BagCardinality(calls) < MaxCalls
    /\ awards < MaxAwards
    /\ awards' = awards + 1
    /\ last' = Rejected("fetchError")
    /\ UNCHANGED <<perdoruesit, user, lastCongratulatedLevel, calls, congratulated>>
    /\ UNCHANGED <<levelUpListeners, xpChangeListeners, delivery, ledger, issueVars, pageVars>>

\* the update of auth.ts:302-305 is served: both columns in one statement
updateUserXPUpdate(call) ==
    /\ BagIn(call, calls)
    /\ call.pc = "fetched"
    /\ perdoruesit' = [perdoruesit EXCEPT ![call.userId] =
           Row(call.newXP, call.newLevel)]
    /\ calls' = (calls (-) SetToBag({call}))
                   (+) SetToBag({[call EXCEPT !.pc = "updated"]})
    /\ UNCHANGED <<user, lastCongratulatedLevel, awards, last, congratulated>>
    /\ UNCHANGED <<levelUpListeners, xpChangeListeners, delivery, ledger, issueVars, pageVars>>

\* a store that writes its cache before the update is confirmed
updateUserXPUpdateErrorOptimistic(call) ==
    /\ BagIn(call, calls)
    /\ call.pc = "fetched"
    /\ calls' = calls (-) SetToBag({call})
    /\ last' = Rejected("updateError")
    /\ user' = IF user.perdorues_id = call.userId
               THEN [user EXCEPT !.pike_eksperience = call.newXP,
                                 !.leveli = call.newLevel]
               ELSE user
    /\ UNCHANGED <<perdoruesit, lastCongratulatedLevel, awards, congratulated>>
    /\ UNCHANGED <<levelUpListeners, xpChangeListeners, delivery, ledger, issueVars, pageVars>>

\* `if (updateError) throw updateError` (auth.ts:306): the update fails, the
\* table is as it was and the call rejects.
updateUserXPUpdateError(call) ==
    /\ BagIn(call, calls)
    /\ call.pc = "fetched"
    /\ calls' = calls (-) SetToBag({call})
    /\ last' = Rejected("updateError")
    /\ UNCHANGED <<perdoruesit, user, lastCongratulatedLevel, awards, congratulated>>
    /\ UNCHANGED <<levelUpListeners, xpChangeListeners, delivery, ledger, issueVars, pageVars>>

\* the test of auth.ts:309 without the comparison of the ids
updateUserXPResumeAnyUser(call) ==
    /\ BagIn(call, calls)
    /\ call.pc = "updated"
    /\ calls' = calls (-) SetToBag({call})
    /\ LET userId == call.userId
           newXP == call.newXP
           newLevel == call.newLevel
           matched == user # NullUser
       IN  IF ~matched
           THEN /\ last' = [NoLast EXCEPT !.op = "resume", !.outcome = "resolved"]
                /\ UNCHANGED <<user, lastCongratulatedLevel, congratulated,
                               levelUpListeners, xpChangeListeners>>
           ELSE \E quote \in Quotes :
                LET fire == IsLevelUp(lastCongratulatedLevel, user, userId, newLevel)
                    up == Notify(levelUpListeners, newLevel, quote)
                    upThrew == fire /\ up.threw
                    xp == Notify(xpChangeListeners, newXP, quote)
                IN  /\ lastCongratulatedLevel' =
                           IF fire THEN (userId :> newLevel) @@ lastCongratulatedLevel
                           ELSE lastCongratulatedLevel
                    /\ congratulated' =
                           IF fire
                           THEN [congratulated EXCEPT ![userId] = Append(@, newLevel)]
                           ELSE congratulated
                    /\ levelUpListeners' =
                           IF fire THEN up.listeners ELSE levelUpListeners
                    /\ user' = IF upThrew THEN user
                               ELSE [user EXCEPT !.pike_eksperience = newXP,
                                                 !.leveli = newLevel]
                    /\ xpChangeListeners' =
                           IF upThrew THEN xpChangeListeners ELSE xp.listeners
                    /\ Len(levelUpListeners') + Len(xpChangeListeners') <= MaxListeners
                    /\ last' = [NoLast EXCEPT
                           !.op = "resume",
                           !.levelUps = IF fire THEN <<newLevel>> ELSE <<>>,
                           !.xpChanges = IF upThrew THEN <<>> ELSE <<newXP>>,
                           !.outcome = IF upThrew \/ xp.threw
                                       THEN "rejected" ELSE "resolved"]
    /\ UNCHANGED <<perdoruesit, awards, delivery, ledger, issueVars, pageVars>>

\* The call resumes after the update returned (auth.ts:307-317): one
\* synchronous run.  A listener that throws inside notifyLevelUp leaves the
\* rest of the function unexecuted and the call rejects.  The quote reaches
\* the listeners only.
updateUserXPResume(call) ==
    /\ BagIn(call, calls)
    /\ call.pc = "updated"
    /\ calls' = calls (-) SetToBag({call})
    /\ LET userId == call.userId
           newXP == call.newXP
           newLevel == call.newLevel
           matched == user # NullUser /\ user.perdorues_id = userId
       IN  IF ~matched
           THEN /\ last' = [NoLast EXCEPT !.op = "resume", !.outcome = "resolved"]
                /\ UNCHANGED <<user, lastCongratulatedLevel, congratulated,
                               levelUpListeners, xpChangeListeners>>
           ELSE \E quote \in Quotes :
                LET fire == IsLevelUp(lastCongratulatedLevel, user, userId, newLevel)
                    up == Notify(levelUpListeners, newLevel, quote)
                    upThrew == fire /\ up.threw
                    xp == Notify(xpChangeListeners, newXP, quote)
                IN  /\ lastCongratulatedLevel' =
                           IF fire THEN (userId :> newLevel) @@ lastCongratulatedLevel
                           ELSE lastCongratulatedLevel
                    /\ congratulated' =
                           IF fire
                           THEN [congratulated EXCEPT ![userId] = Append(@, newLevel)]
                           ELSE congratulated
                    /\ levelUpListeners' =
                           IF fire THEN up.listeners ELSE levelUpListeners
                    /\ user' = IF upThrew THEN user
                               ELSE [user EXCEPT !.pike_eksperience = newXP,
                                                 !.leveli = newLevel]
                    /\ xpChangeListeners' =
                           IF upThrew THEN xpChangeListeners ELSE xp.listeners
                    /\ Len(levelUpListeners') + Len(xpChangeListeners') <= MaxListeners
                    /\ last' = [NoLast EXCEPT
                           !.op = "resume",
                           !.levelUps = IF fire THEN <<newLevel>> ELSE <<>>,
                           !.xpChanges = IF upThrew THEN <<>> ELSE <<newXP>>,
                           !.outcome = IF upThrew \/ xp.threw
                                       THEN "rejected" ELSE "resolved"]
    /\ UNCHANGED <<perdoruesit, awards, delivery, ledger, issueVars, pageVars>>

\* The page is loaded again: the module state of auth.ts starts over (a new
\* session), pending calls are gone, the hosted table and session remain.
reload ==
    /\ user' = NullUser
    /\ lastCongratulatedLevel' = <<>>
    /\ levelUpListeners' = <<>>
    /\ xpChangeListeners' = <<>>
    /\ calls' = EmptyBag
    /\ last' = NoLast
    /\ congratulated' = [id \in Users |-> <<>>]
    /\ delivery' = NoDelivery
    /\ UNCHANGED <<perdoruesit, awards, ledger, issueVars, pageVars>>

\* ------------------------------------------------------------ issue store
\* issue-store operations that may be in flight at once
MaxIssueCalls == 2
\* issue-store operations started in one run of the model
MaxIssueOps == 2

\* the ids the hosted table assigns, in order of creation
IssueIds == {1, 2}
\* the statuses this client moves an issue between, and the one another
\* client moves it to
Statuses == {"open", "resolved"}
RemoteStatuses == {"in_progress"}
Descriptions == {"d0", "d1"}
\* the description a report is filed with
NewDescriptions == {"d0"}
\* error.message || '...' (issues.ts:58, 108, 147, 167, 216): the text of the
\* error that was caught
ErrorMessage == "message"

authVars == <<perdoruesit, user, lastCongratulatedLevel, levelUpListeners,
              xpChangeListeners, calls, awards, last, congratulated, delivery,
              ledger>>

\* a row of the hosted table issues: not created yet, present, or deleted
NoIssue == [state |-> "absent", status |-> "open", description |-> "d0"]

IssueRow(status, description) ==
    [state |-> "present", status |-> status, description |-> description]

\* the Issue object the store caches for a row (issues.ts:51-54, 95-98)
CachedIssue(id, row) ==
    [id |-> id, status |-> row.status, description |-> row.description]

\* roli of the registered identities: 1 is a citizen, 2 an institution
Roli(id) ==
    IF id = 2 THEN "institution" ELSE IF id = 1 THEN "citizen" ELSE "none"

\* select(...).order('created_at', { ascending: false }) of issues.ts:44-47:
\* the present rows, newest first
RECURSIVE SelectIssues(_, _)
SelectIssues(table, id) ==
    IF id = 0 THEN <<>>
    ELSE (IF table[id].state = "present"
          THEN <<CachedIssue(id, table[id])>> ELSE <<>>)
             \o SelectIssues(table, id - 1)

\* the frame of an issue-store operation between two awaits: its number in
\* order of start, the operation, where it waits, its arguments, the locals
\* it captured (old, actor), the response it holds and, as history, the
\* status the row had when the write was served (was)
IssueCall(seq, op, pc, issueId, value, old, actor, response, was) ==
    [seq |-> seq, op |-> op, pc |-> pc, issueId |-> issueId, value |-> value,
     old |-> old, actor |-> actor, response |-> response, was |-> was]

NoLastIssue == [seq |-> 0, op |-> "none", outcome |-> "none", failed |-> FALSE]

Ended(call, outcome, failed) ==
    [seq |-> call.seq, op |-> call.op, outcome |-> outcome, failed |-> failed]

CanStartIssueCall ==
    issueOps < MaxIssueOps /\ Cardinality(issueCalls) < MaxIssueCalls

\* fetchIssues up to its await (issues.ts:42-47)
fetchIssues ==
    /\ CanStartIssueCall
    /\ issueOps' = issueOps + 1
    /\ loading' = TRUE
    /\ error' = "null"
    /\ issueCalls' = issueCalls \cup
           {IssueCall(issueOps + 1, "fetchIssues", "requested", 0, "", "", 0, <<>>, "")}
    /\ UNCHANGED <<issuesTable, ndryshimet, issues, lastIssue, accepted>>
    /\ UNCHANGED <<authVars, pageVars, remoteWrites, fetched>>

\* the select is served: the response holds the table as it is now
fetchIssuesServed(call) ==
    /\ call \in issueCalls
    /\ call.op = "fetchIssues" /\ call.pc = "requested"
    /\ issueCalls' = (issueCalls \ {call}) \cup
           {[call EXCEPT !.pc = "served",
                         !.response = SelectIssues(issuesTable, 2)]}
    /\ UNCHANGED <<issuesTable, ndryshimet, issues, loading, error, issueOps,
                   lastIssue, accepted>>
    /\ UNCHANGED <<authVars, pageVars, remoteWrites, fetched>>

\* a catch block that also empties the cache
fetchIssuesFailedClearing(call) ==
    /\ call \in issueCalls
    /\ call.op = "fetchIssues" /\ call.pc = "requested"
    /\ issueCalls' = issueCalls \ {call}
    /\ issues' = <<>>
    /\ error' = ErrorMessage
    /\ loading' = FALSE
    /\ lastIssue' = Ended(call, "resolved", TRUE)
    /\ UNCHANGED <<issuesTable, ndryshimet, issueOps, accepted>>
    /\ UNCHANGED <<authVars, pageVars, remoteWrites, fetched>>

\* the select fails: `if (error) throw error`, caught at issues.ts:56-59
fetchIssuesFailed(call) ==
    /\ call \in issueCalls
    /\ call.op = "fetchIssues" /\ call.pc = "requested"
    /\ issueCalls' = issueCalls \ {call}
    /\ error' = ErrorMessage
    /\ loading' = FALSE
    /\ lastIssue' = Ended(call, "resolved", TRUE)
    /\ UNCHANGED <<issuesTable, ndryshimet, issues, issueOps, accepted>>
    /\ UNCHANGED <<authVars, pageVars, remoteWrites, fetched>>

\* a store that drops the response of a call requested before the call
\* whose response it applied last
fetchIssuesResumeLatestOnly(call) ==
    /\ call \in issueCalls
    /\ call.op = "fetchIssues" /\ call.pc = "served"
    /\ issueCalls' = issueCalls \ {call}
    /\ issues' = IF fetched # <<>> /\ fetched[Len(fetched)].seq > call.seq
                  THEN issues ELSE call.response
    /\ loading' = FALSE
    /\ lastIssue' = Ended(call, "resolved", FALSE)
    /\ fetched' = Append(fetched, [seq |-> call.seq, response |-> call.response])
    /\ UNCHANGED <<issuesTable, ndryshimet, error, issueOps, accepted>>
    /\ UNCHANGED <<authVars, pageVars, remoteWrites>>

\* the response arrives: set({ issues, loading: false }) of issues.ts:51-55
fetchIssuesResume(call) ==
    /\ call \in issueCalls
    /\ call.op = "fetchIssues" /\ call.pc = "served"
    /\ issueCalls' = issueCalls \ {call}
    /\ issues' = call.response
    /\ loading' = FALSE
    /\ lastIssue' = Ended(call, "resolved", FALSE)
    /\ fetched' = Append(fetched, [seq |-> call.seq, response |-> call.response])
    /\ UNCHANGED <<issuesTable, ndryshimet, error, issueOps, accepted>>
    /\ UNCHANGED <<authVars, pageVars, remoteWrites>>

\* catch blocks that all end in `throw error`
RethrowsEverywhere(op) ==
    op \in {"fetchIssues", "addIssue", "updateIssueStatus", "deleteIssue",
            "updateIssue"}

\* the catch blocks (issues.ts:56-59, 106-110, 145-148, 165-168, 214-218):
\* the error is recorded and loading cleared; addIssue and updateIssue
\* throw it again, the other operations swallow it
Rethrows(op) ==
    op \in {"addIssue", "updateIssue"}

Caught(call) ==
    Ended(call, IF Rethrows(call.op) THEN "rejected" ELSE "resolved", TRUE)

\* addIssue without a cached identity: `throw new Error('User not
\* authenticated')` inside the try, before any await (issues.ts:63-66, 106-109)
addIssueNoUser ==
    /\ CanStartIssueCall
    /\ user = NullUser
    /\ issueOps' = issueOps + 1
    /\ loading' = FALSE
    /\ error' = ErrorMessage
    /\ lastIssue' = [seq |-> issueOps + 1, op |-> "addIssue",
                     outcome |-> "rejected", failed |-> TRUE]
    /\ UNCHANGED <<issuesTable, ndryshimet, issues, issueCalls, accepted>>
    /\ UNCHANGED <<authVars, pageVars, remoteWrites, fetched>>

\* addIssue up to its first await: the upload when image_url is a File, or
\* else the procedure call (issues.ts:63-76)
addIssue(description, isFile) ==
    /\ CanStartIssueCall
    /\ user # NullUser
    /\ issueOps' = issueOps + 1
    /\ loading' = TRUE
    /\ error' = "null"
    /\ issueCalls' = issueCalls \cup
           {IssueCall(issueOps + 1, "addIssue", IF isFile THEN "upload" ELSE "rpc",
                      0, description, "", user.perdorues_id, <<>>, "")}
    /\ UNCHANGED <<issuesTable, ndryshimet, issues, lastIssue, accepted>>
    /\ UNCHANGED <<authVars, pageVars, remoteWrites, fetched>>

\* uploadImage returned the public URL (issues.ts:71-72)
addIssueUploaded(call) ==
    /\ call \in issueCalls
    /\ call.op = "addIssue" /\ call.pc = "upload"
    /\ issueCalls' = (issueCalls \ {call}) \cup {[call EXCEPT !.pc = "rpc"]}
    /\ UNCHANGED <<issuesTable, ndryshimet, issues, loading, error, issueOps,
                   lastIssue, accepted>>
    /\ UNCHANGED <<authVars, pageVars, remoteWrites, fetched>>

\* insert_issue is served: the table assigns the next id and the row starts
\* open; the store then selects the row by that id (issues.ts:76-92)
addIssueInserted(call) ==
    /\ call \in issueCalls
    /\ call.op = "addIssue" /\ call.pc = "rpc"
    /\ \E id \in IssueIds :
        /\ issuesTable[id].state = "absent"
        /\ \A other \in IssueIds : other < id => issuesTable[other].state # "absent"
        /\ issuesTable' = [issuesTable EXCEPT ![id] = IssueRow("open", call.value)]
        /\ accepted' = accepted \cup {<<id, "status", "open">>,
                                      <<id, "description", call.value>>}
        /\ issueCalls' = (issueCalls \ {call}) \cup
               {[call EXCEPT !.pc = "refetch", !.issueId = id]}
    /\ UNCHANGED <<ndryshimet, issues, loading, error, issueOps, lastIssue>>
    /\ UNCHANGED <<authVars, pageVars, remoteWrites, fetched>>

\* the select of the new row is served (issues.ts:88-93)
addIssueRefetched(call) ==
    /\ call \in issueCalls
    /\ call.op = "addIssue" /\ call.pc = "refetch"
    /\ issuesTable[call.issueId].state = "present"
    /\ issueCalls' = (issueCalls \ {call}) \cup
           {[call EXCEPT !.pc = "fetched",
                         !.response = <<CachedIssue(call.issueId,
                                                    issuesTable[call.issueId])>>]}
    /\ UNCHANGED <<issuesTable, ndryshimet, issues, loading, error, issueOps,
                   lastIssue, accepted>>
    /\ UNCHANGED <<authVars, pageVars, remoteWrites, fetched>>

\* the upload, the procedure call or the select fails (a select of a row
\* deleted meanwhile fails in single()): caught at issues.ts:106-110
addIssueFailed(call) ==
    /\ call \in issueCalls
    /\ call.op = "addIssue" /\ call.pc \in {"upload", "rpc", "refetch"}
    /\ issueCalls' = issueCalls \ {call}
    /\ error' = ErrorMessage
    /\ loading' = FALSE
    /\ lastIssue' = Caught(call)
    /\ UNCHANGED <<issuesTable, ndryshimet, issues, issueOps, accepted>>
    /\ UNCHANGED <<authVars, pageVars, remoteWrites, fetched>>

\* a store that puts the new record after the cached ones
addIssueResumeAppending(call) ==
    /\ call \in issueCalls
    /\ call.op = "addIssue" /\ call.pc = "fetched"
    /\ issueCalls' = issueCalls \ {call}
    /\ issues' = issues \o call.response
    /\ loading' = FALSE
    /\ lastIssue' = Ended(call, "resolved", FALSE)
    /\ UNCHANGED <<issuesTable, ndryshimet, error, issueOps, accepted>>
    /\ UNCHANGED <<authVars, pageVars, remoteWrites, fetched>>

\* issues: [issueWithUsername, ...state.issues] (issues.ts:95-105)
addIssueResume(call) ==
    /\ call \in issueCalls
    /\ call.op = "addIssue" /\ call.pc = "fetched"
    /\ issueCalls' = issueCalls \ {call}
    /\ issues' = call.response \o issues
    /\ loading' = FALSE
    /\ lastIssue' = Ended(call, "resolved", FALSE)
    /\ UNCHANGED <<issuesTable, ndryshimet, error, issueOps, accepted>>
    /\ UNCHANGED <<authVars, pageVars, remoteWrites, fetched>>

\* (get()?.issues || []).find((issue) => issue.id === issueId), then the
\* field read through ?. (issues.ts:118-119, 176, 203): "undefined" when the
\* cache holds no such issue
RECURSIVE FindIssue(_, _, _)
FindIssue(list, issueId, field) ==
    IF list = <<>> THEN "undefined"
    ELSE IF Head(list).id = issueId THEN Head(list)[field]
         ELSE FindIssue(Tail(list), issueId, field)

\* state.issues.map(issue => issue.id === issueId ? { ...issue, [field]: value } : issue)
MergeField(list, issueId, field, value) ==
    [i \in 1..Len(list) |->
        IF list[i].id = issueId THEN [list[i] EXCEPT ![field] = value]
        ELSE list[i]]

InCache(issueId) ==
    \E i \in 1..Len(issues) : issues[i].id = issueId

\* the field an operation writes
FieldOf(op) ==
    IF op = "updateIssueStatus" THEN "status" ELSE "description"

\* a store that merges the new value into the cache before the update is sent
updateStartOptimistic(op, issueId, value, isFile) ==
    /\ CanStartIssueCall
    /\ InCache(issueId)
    /\ issueOps' = issueOps + 1
    /\ loading' = TRUE
    /\ error' = "null"
    /\ issues' = MergeField(issues, issueId, FieldOf(op), value)
    /\ issueCalls' = issueCalls \cup
           {IssueCall(issueOps + 1, op, IF isFile THEN "upload" ELSE "requested",
                      issueId, value, FindIssue(issues, issueId, FieldOf(op)),
                      user.perdorues_id, <<>>, "")}
    /\ UNCHANGED <<issuesTable, ndryshimet, lastIssue, accepted>>
    /\ UNCHANGED <<authVars, pageVars, remoteWrites, fetched>>

\* updateIssueStatus (field status) and updateIssue (field description) up
\* to the await of the update: the cached identity and the old value are
\* read now (issues.ts:114-123, 172-187).  The views pass the id of an issue
\* they show.  updateIssue first uploads image_url when it is a File.
updateStart(op, issueId, value, isFile) ==
    /\ CanStartIssueCall
    /\ InCache(issueId)
    /\ issueOps' = issueOps + 1
    /\ loading' = TRUE
    /\ error' = "null"
    /\ issueCalls' = issueCalls \cup
           {IssueCall(issueOps + 1, op, IF isFile THEN "upload" ELSE "requested",
                      issueId, value, FindIssue(issues, issueId, FieldOf(op)),
                      user.perdorues_id, <<>>, "")}
    /\ UNCHANGED <<issuesTable, ndryshimet, issues, lastIssue, accepted>>
    /\ UNCHANGED <<authVars, pageVars, remoteWrites, fetched>>

updateIssueStatus(issueId, newStatus) ==
    updateStart("updateIssueStatus", issueId, newStatus, FALSE)

updateIssue(issueId, description, isFile) ==
    updateStart("updateIssue", issueId, description, isFile)

\* uploadImage returned the public URL (issues.ts:178-181)
updateIssueUploaded(call) ==
    /\ call \in issueCalls
    /\ call.op = "updateIssue" /\ call.pc = "upload"
    /\ issueCalls' = (issueCalls \ {call}) \cup {[call EXCEPT !.pc = "requested"]}
    /\ UNCHANGED <<issuesTable, ndryshimet, issues, loading, error, issueOps,
                   lastIssue, accepted>>
    /\ UNCHANGED <<authVars, pageVars, remoteWrites, fetched>>

\* the update is served.  update().eq('id', issueId) of updateIssueStatus
\* succeeds also when no row matches; update().eq().select().single() of
\* updateIssue needs the row.
updateWritten(call) ==
    /\ call \in issueCalls
    /\ call.op \in {"updateIssueStatus", "updateIssue"} /\ call.pc = "requested"
    /\ LET row == issuesTable[call.issueId]
           field == FieldOf(call.op)
       IN  /\ call.op = "updateIssue" => row.state = "present"
           /\ issuesTable' =
                  IF row.state = "present"
                  THEN [issuesTable EXCEPT ![call.issueId][field] = call.value]
                  ELSE issuesTable
           /\ accepted' = accepted \cup {<<call.issueId, field, call.value>>}
           /\ issueCalls' = (issueCalls \ {call}) \cup
                  {[call EXCEPT !.pc = "written",
                                !.was = IF row.state = "present" THEN row[field]
                                        ELSE "undefined"]}
    /\ UNCHANGED <<ndryshimet, issues, loading, error, issueOps, lastIssue>>
    /\ UNCHANGED <<authVars, pageVars, remoteWrites, fetched>>

\* a catch block that records the error and leaves loading as it is
updateFailedStuck(call) ==
    /\ call \in issueCalls
    /\ call.op \in {"updateIssueStatus", "updateIssue"}
    /\ call.pc \in {"upload", "requested"}
    /\ issueCalls' = issueCalls \ {call}
    /\ error' = ErrorMessage
    /\ lastIssue' = Caught(call)
    /\ UNCHANGED <<issuesTable, ndryshimet, issues, loading, issueOps, accepted>>
    /\ UNCHANGED <<authVars, pageVars, remoteWrites, fetched>>

\* the upload or the update fails: caught at issues.ts:145-148, 214-218
updateFailed(call) ==
    /\ call \in issueCalls
    /\ call.op \in {"updateIssueStatus", "updateIssue"}
    /\ call.pc \in {"upload", "requested"}
    /\ issueCalls' = issueCalls \ {call}
    /\ error' = ErrorMessage
    /\ loading' = FALSE
    /\ lastIssue' = Caught(call)
    /\ UNCHANGED <<issuesTable, ndryshimet, issues, issueOps, accepted>>
    /\ UNCHANGED <<authVars, pageVars, remoteWrites, fetched>>

\* the call resumes after the update (issues.ts:127-144, 189-212): the cached
\* issue takes the new value and loading is cleared; an institution then
\* awaits the insert into ndryshimet, anyone else is done
updateResume(call) ==
    /\ call \in issueCalls
    /\ call.op \in {"updateIssueStatus", "updateIssue"} /\ call.pc = "written"
    /\ issues' = MergeField(issues, call.issueId, FieldOf(call.op), call.value)
    /\ loading' = FALSE
    /\ IF Roli(call.actor) = "institution"
       THEN /\ issueCalls' = (issueCalls \ {call}) \cup {[call EXCEPT !.pc = "audit"]}
            /\ UNCHANGED lastIssue
       ELSE /\ issueCalls' = issueCalls \ {call}
            /\ lastIssue' = Ended(call, "resolved", FALSE)
    /\ UNCHANGED <<issuesTable, ndryshimet, error, issueOps, accepted>>
    /\ UNCHANGED <<authVars, pageVars, remoteWrites, fetched>>

\* the record of issues.ts:136-143 and 198-211
AuditRecord(call) ==
    [issue_id |-> call.issueId, perdorues_id |-> call.actor,
     action |-> IF call.op = "updateIssue" THEN "edit" ELSE "status_update",
     old_value |-> call.old, new_value |-> call.value]

\* the insert into ndryshimet is served and the call returns
auditInserted(call) ==
    /\ call \in issueCalls
    /\ call.pc = "audit"
    /\ ndryshimet' = Append(ndryshimet, AuditRecord(call))
    /\ issueCalls' = issueCalls \ {call}
    /\ lastIssue' = Ended(call, "resolved", FALSE)
    /\ UNCHANGED <<issuesTable, issues, loading, error, issueOps, accepted>>
    /\ UNCHANGED <<authVars, pageVars, remoteWrites, fetched>>

\* a store in which the failing insert throws into the catch block
auditFailedReported(call) ==
    /\ call \in issueCalls
    /\ call.pc = "audit"
    /\ issueCalls' = issueCalls \ {call}
    /\ error' = ErrorMessage
    /\ loading' = FALSE
    /\ lastIssue' = Caught(call)
    /\ UNCHANGED <<issuesTable, ndryshimet, issues, issueOps, accepted>>
    /\ UNCHANGED <<authVars, pageVars, remoteWrites, fetched>>

\* the insert fails: its result is not read, the call returns
auditFailed(call) ==
    /\ call \in issueCalls
    /\ call.pc = "audit"
    /\ issueCalls' = issueCalls \ {call}
    /\ lastIssue' = Ended(call, "resolved", FALSE)
    /\ UNCHANGED <<issuesTable, ndryshimet, issues, loading, error, issueOps,
                   accepted>>
    /\ UNCHANGED <<authVars, pageVars, remoteWrites, fetched>>

\* a store that filters the id out of the cache before the delete is sent
deleteIssueRemovingFirst(issueId) ==
    /\ CanStartIssueCall
    /\ InCache(issueId)
    /\ issueOps' = issueOps + 1
    /\ loading' = TRUE
    /\ error' = "null"
    /\ issues' = SelectSeq(issues, LAMBDA issue : issue.id # issueId)
    /\ issueCalls' = issueCalls \cup
           {IssueCall(issueOps + 1, "deleteIssue", "requested", issueId, "", "",
                      0, <<>>, "")}
    /\ UNCHANGED <<issuesTable, ndryshimet, lastIssue, accepted>>
    /\ UNCHANGED <<authVars, pageVars, remoteWrites, fetched>>

\* deleteIssue up to its await (issues.ts:152-157)
deleteIssue(issueId) ==
    /\ CanStartIssueCall
    /\ InCache(issueId)
    /\ issueOps' = issueOps + 1
    /\ loading' = TRUE
    /\ error' = "null"
    /\ issueCalls' = issueCalls \cup
           {IssueCall(issueOps + 1, "deleteIssue", "requested", issueId, "", "",
                      0, <<>>, "")}
    /\ UNCHANGED <<issuesTable, ndryshimet, issues, lastIssue, accepted>>
    /\ UNCHANGED <<authVars, pageVars, remoteWrites, fetched>>

\* the delete is served (it succeeds also when no row matches)
deleteIssueServed(call) ==
    /\ call \in issueCalls
    /\ call.op = "deleteIssue" /\ call.pc = "requested"
    /\ issuesTable' =
           IF issuesTable[call.issueId].state = "present"
           THEN [issuesTable EXCEPT ![call.issueId].state = "deleted"]
           ELSE issuesTable
    /\ issueCalls' = (issueCalls \ {call}) \cup {[call EXCEPT !.pc = "deleted"]}
    /\ UNCHANGED <<ndryshimet, issues, loading, error, issueOps, lastIssue, accepted>>
    /\ UNCHANGED <<authVars, pageVars, remoteWrites, fetched>>

\* the delete fails: caught at issues.ts:165-168
deleteIssueFailed(call) ==
    /\ call \in issueCalls
    /\ call.op = "deleteIssue" /\ call.pc = "requested"
    /\ issueCalls' = issueCalls \ {call}
    /\ error' = ErrorMessage
    /\ loading' = FALSE
    /\ lastIssue' = Caught(call)
    /\ UNCHANGED <<issuesTable, ndryshimet, issues, issueOps, accepted>>
    /\ UNCHANGED <<authVars, pageVars, remoteWrites, fetched>>

\* issues: state.issues.filter(issue => issue.id !== issueId) (issues.ts:161-164)
deleteIssueResume(call) ==
    /\ call \in issueCalls
    /\ call.op = "deleteIssue" /\ call.pc = "deleted"
    /\ issueCalls' = issueCalls \ {call}
    /\ issues' = SelectSeq(issues, LAMBDA issue : issue.id # call.issueId)
    /\ loading' = FALSE
    /\ lastIssue' = Ended(call, "resolved", FALSE)
    /\ UNCHANGED <<issuesTable, ndryshimet, error, issueOps, accepted>>
    /\ UNCHANGED <<authVars, pageVars, remoteWrites, fetched>>

\* the store as created (issues.ts:34-36) before a hosted table that holds one
\* open issue
InitIssueStore ==
    /\ issuesTable = [id \in IssueIds |->
                         IF id = 1 THEN IssueRow("open", "d0") ELSE NoIssue]
    /\ ndryshimet = <<>>
    /\ issues = <<>>
    /\ loading = FALSE
    /\ error = "null"
    /\ issueCalls = {}
    /\ issueOps = 0
    /\ remoteWrites = 0
    /\ fetched = <<>>
    /\ lastIssue = NoLastIssue
    /\ accepted = {<<1, "status", "open">>, <<1, "description", "d0">>}

\* the page has loaded: its first fetchIssues (Issues.tsx:89-91) has resolved
LoadedIssueStore ==
    /\ issuesTable = [id \in IssueIds |->
                         IF id = 1 THEN IssueRow("open", "d0") ELSE NoIssue]
    /\ ndryshimet = <<>>
    /\ issues = SelectIssues(issuesTable, 2)
    /\ loading = FALSE
    /\ error = "null"
    /\ issueCalls = {}
    /\ issueOps = 0
    /\ remoteWrites = 0
    /\ fetched = <<>>
    /\ lastIssue = NoLastIssue
    /\ accepted = {<<1, "status", "open">>, <<1, "description", "d0">>}

\* another client changes the status of an issue in the hosted table, once
\* in a run; this is what the realtime channel of Issues.tsx:101-115 reports
remoteStatusUpdate(issueId, newStatus) ==
    /\ remoteWrites = 0
    /\ remoteWrites' = remoteWrites + 1
    /\ issuesTable[issueId].state = "present"
    /\ issuesTable[issueId].status # newStatus
    /\ issuesTable' = [issuesTable EXCEPT ![issueId].status = newStatus]
    /\ accepted' = accepted \cup {<<issueId, "status", newStatus>>}
    /\ UNCHANGED <<ndryshimet, issues, loading, error, issueCalls, issueOps,
                   fetched, lastIssue>>
    /\ UNCHANGED <<authVars, pageVars>>

\* ------------------------------------------------------------ likes
\* handleLike calls started in one run of the model
MaxToggles == 2

\* the views that show the like state of the issue: each is a LikeButton or
\* an IssueDetailModal, in this tab or another one of the same session
Views == {1, 2}
ViewKinds == {"LikeButton", "IssueDetailModal"}

\* the identity whose session the views share
Liker == 1

\* select('*', { count: 'exact', head: true }).eq('issue_id', issueId): the
\* number of rows of the issue (LikeButton.tsx:80-83, IssueDetailModal.tsx:232-235)
RECURSIVE CountRows(_, _)
CountRows(table, id) ==
    IF id = 0 THEN 0 ELSE table[id] + CountRows(table, id - 1)

LikeCount(table) == CountRows(table, 2)

\* useState of likeCount, isLiked, isLoading (LikeButton.tsx:14-16,
\* IssueDetailModal.tsx:37-39) once the view has fetched them
View(kind, count, liked) ==
    [kind |-> kind, likeCount |-> count, isLiked |-> liked, isLoading |-> FALSE]

\* the frame of a handleLike call between two awaits: its number in order of
\* start, its view, where it waits, the response it holds and, as history,
\* the requests it has sent, how many calls had ended when it started and
\* what its view showed then
LikeCall(seq, view, pc, requests, after, shown) ==
    [seq |-> seq, view |-> view, pc |-> pc, requests |-> requests,
     response |-> [count |-> 0, liked |-> FALSE], after |-> after,
     shown |-> [count |-> shown.likeCount, liked |-> shown.isLiked]]

LikeEnded(call, ok, shown) ==
    [seq |-> call.seq, view |-> call.view, ok |-> ok, after |-> call.after,
     shown |-> call.shown, requests |-> call.requests, response |-> call.response,
     likeCount |-> shown.likeCount, isLiked |-> shown.isLiked]

Move(call, pc, request) ==
    [call EXCEPT !.pc = pc, !.requests = Append(@, request)]

\* the procedure toggle_like: in one statement the like of the identity is
\* removed if it exists and created if not, and the new count and the new
\* membership are returned
toggle_like(table, id) ==
    LET now == [table EXCEPT ![id] = IF table[id] > 0 THEN 0 ELSE 1]
    IN  [table |-> now, count |-> LikeCount(now), liked |-> now[id] > 0]

\* LikeButton.handleLike up to the await of the procedure call
\* (LikeButton.tsx:98-111); the button is disabled while isLoading
\* (LikeButton.tsx:134-135)
LikeButton_handleLike(v) ==
    /\ toggles < MaxToggles
    /\ views[v].kind = "LikeButton"
    /\ ~views[v].isLoading
    /\ user # NullUser
    /\ toggles' = toggles + 1
    /\ views' = [views EXCEPT ![v].isLoading = TRUE]
    /\ likeCalls' = likeCalls \cup
           {LikeCall(toggles + 1, v, "rpc", <<"toggle_like">>, Len(likeLog), views[v])}
    /\ UNCHANGED <<likes, likeLog>>
    /\ UNCHANGED <<authVars, issueVars, mountVars, registerVars>>

\* the procedure call is served
LikeButton_toggleServed(call) ==
    /\ call \in likeCalls
    /\ call.pc = "rpc"
    /\ LET result == toggle_like(likes, user.perdorues_id)
       IN  /\ likes' = result.table
           /\ likeCalls' = (likeCalls \ {call}) \cup
                  {[call EXCEPT !.pc = "toggled",
                                !.response = [count |-> result.count,
                                              liked |-> result.liked]]}
    /\ UNCHANGED <<views, toggles, likeLog>>
    /\ UNCHANGED <<authVars, issueVars, mountVars, registerVars>>

\* the procedure call fails: the catch block shows the toast and the finally
\* block clears isLoading (LikeButton.tsx:113-116, 124-129)
LikeButton_toggleFailed(call) ==
    /\ call \in likeCalls
    /\ call.pc = "rpc"
    /\ likeCalls' = likeCalls \ {call}
    /\ views' = [views EXCEPT ![call.view].isLoading = FALSE]
    /\ likeLog' = Append(likeLog, LikeEnded(call, FALSE, views'[call.view]))
    /\ UNCHANGED <<likes, toggles>>
    /\ UNCHANGED <<authVars, issueVars, mountVars, registerVars>>

\* setLikeCount(data[0].like_count); setIsLiked(data[0].liked); onUpdate
\* (LikeButton.tsx:119-129)
LikeButton_resume(call) ==
    /\ call \in likeCalls
    /\ call.pc = "toggled"
    /\ likeCalls' = likeCalls \ {call}
    /\ views' = [views EXCEPT ![call.view].likeCount = call.response.count,
                              ![call.view].isLiked = call.response.liked,
                              ![call.view].isLoading = FALSE]
    /\ likeLog' = Append(likeLog, LikeEnded(call, TRUE, views'[call.view]))
    /\ UNCHANGED <<likes, toggles>>
    /\ UNCHANGED <<authVars, issueVars, mountVars, registerVars>>

\* a handleLike that would insert whatever the view's isLiked says
IssueDetailModal_handleLikeInserting(v) ==
    /\ toggles < MaxToggles
    /\ views[v].kind = "IssueDetailModal"
    /\ ~views[v].isLoading
    /\ user # NullUser
    /\ toggles' = toggles + 1
    /\ views' = [views EXCEPT ![v].isLoading = TRUE]
    /\ likeCalls' = likeCalls \cup
           {LikeCall(toggles + 1, v, "insert", <<"insert">>, Len(likeLog), views[v])}
    /\ UNCHANGED <<likes, likeLog>>
    /\ UNCHANGED <<authVars, issueVars, mountVars, registerVars>>

\* IssueDetailModal.handleLike up to its first await: the delete when the
\* view's isLiked is set, or else the insert (IssueDetailModal.tsx:182-220);
\* the button is disabled while isLoading (IssueDetailModal.tsx:439-440)
IssueDetailModal_handleLike(v) ==
    /\ toggles < MaxToggles
    /\ views[v].kind = "IssueDetailModal"
    /\ ~views[v].isLoading
    /\ user # NullUser
    /\ toggles' = toggles + 1
    /\ views' = [views EXCEPT ![v].isLoading = TRUE]
    /\ likeCalls' = likeCalls \cup
           {IF views[v].isLiked
            THEN LikeCall(toggles + 1, v, "delete", <<"delete">>, Len(likeLog), views[v])
            ELSE LikeCall(toggles + 1, v, "insert", <<"insert">>, Len(likeLog), views[v])}
    /\ UNCHANGED <<likes, likeLog>>
    /\ UNCHANGED <<authVars, issueVars, mountVars, registerVars>>

\* delete().eq('issue_id', ...).eq('perdorues_id', ...) is served: every row
\* of the identity goes (IssueDetailModal.tsx:200-204)
IssueDetailModal_deleteServed(call) ==
    /\ call \in likeCalls
    /\ call.pc = "delete"
    /\ likes' = [likes EXCEPT ![user.perdorues_id] = 0]
    /\ likeCalls' = (likeCalls \ {call}) \cup {[call EXCEPT !.pc = "deleted"]}
    /\ UNCHANGED <<views, toggles, likeLog>>
    /\ UNCHANGED <<authVars, issueVars, mountVars, registerVars>>

\* insert([{ issue_id, perdorues_id }]) is served: one more row
\* (IssueDetailModal.tsx:213-220)
IssueDetailModal_insertServed(call) ==
    /\ call \in likeCalls
    /\ call.pc = "insert"
    /\ likes' = [likes EXCEPT ![user.perdorues_id] = @ + 1]
    /\ likeCalls' = (likeCalls \ {call}) \cup {[call EXCEPT !.pc = "inserted"]}
    /\ UNCHANGED <<views, toggles, likeLog>>
    /\ UNCHANGED <<authVars, issueVars, mountVars, registerVars>>

\* setIsLiked(false), then the count is requested
\* (IssueDetailModal.tsx:210, 232-235)
IssueDetailModal_deleted(call) ==
    /\ call \in likeCalls
    /\ call.pc = "deleted"
    /\ views' = [views EXCEPT ![call.view].isLiked = FALSE]
    /\ likeCalls' = (likeCalls \ {call}) \cup {Move(call, "count", "count")}
    /\ UNCHANGED <<likes, toggles, likeLog>>
    /\ UNCHANGED <<authVars, issueVars, mountVars, registerVars>>

\* setIsLiked(true), then `await updateUserXP(user.perdorues_id, 5)`
\* (IssueDetailModal.tsx:226-228)
IssueDetailModal_inserted(call) ==
    /\ call \in likeCalls
    /\ call.pc = "inserted"
    /\ views' = [views EXCEPT ![call.view].isLiked = TRUE]
    /\ likeCalls' = (likeCalls \ {call}) \cup {[call EXCEPT !.pc = "award"]}
    /\ UNCHANGED <<likes, toggles, likeLog>>
    /\ UNCHANGED <<authVars, issueVars, mountVars, registerVars>>

\* updateUserXP resolved, the count is requested (IssueDetailModal.tsx:228-235)
IssueDetailModal_awarded(call) ==
    /\ call \in likeCalls
    /\ call.pc = "award"
    /\ likeCalls' = (likeCalls \ {call}) \cup {Move(call, "count", "count")}
    /\ UNCHANGED <<likes, views, toggles, likeLog>>
    /\ UNCHANGED <<authVars, issueVars, mountVars, registerVars>>

\* the select of the count is served (IssueDetailModal.tsx:232-235)
IssueDetailModal_countServed(call) ==
    /\ call \in likeCalls
    /\ call.pc = "count"
    /\ likeCalls' = (likeCalls \ {call}) \cup
           {[call EXCEPT !.pc = "counted",
                         !.response = [count |-> LikeCount(likes),
                                       liked |-> views[call.view].isLiked]]}
    /\ UNCHANGED <<likes, views, toggles, likeLog>>
    /\ UNCHANGED <<authVars, issueVars, mountVars, registerVars>>

\* the delete, the insert, updateUserXP or the select fails: the catch block
\* shows the toast, the finally block clears isLoading
\* (IssueDetailModal.tsx:206-209, 222-225, 237-240, 248-258)
IssueDetailModal_failed(call) ==
    /\ call \in likeCalls
    /\ call.pc \in {"delete", "insert", "award", "count"}
    /\ likeCalls' = likeCalls \ {call}
    /\ views' = [views EXCEPT ![call.view].isLoading = FALSE]
    /\ likeLog' = Append(likeLog, LikeEnded(call, FALSE, views'[call.view]))
    /\ UNCHANGED <<likes, toggles>>
    /\ UNCHANGED <<authVars, issueVars, mountVars, registerVars>>

\* setLikeCount(newCount); onLikeUpdate (IssueDetailModal.tsx:242-247, 256-258)
IssueDetailModal_resume(call) ==
    /\ call \in likeCalls
    /\ call.pc = "counted"
    /\ likeCalls' = likeCalls \ {call}
    /\ views' = [views EXCEPT ![call.view].likeCount = call.response.count,
                              ![call.view].isLoading = FALSE]
    /\ likeLog' = Append(likeLog, LikeEnded(call, TRUE, views'[call.view]))
    /\ UNCHANGED <<likes, toggles>>
    /\ UNCHANGED <<authVars, issueVars, mountVars, registerVars>>

\* ------------------------------------------------------------ view effects
\* effect set-ups (mounts, openings, re-runs) in one run of the model
MaxMounts == 3

\* the views that open subscriptions in an effect
MountViews == {"LikeButton", "Issues", "IssueDetailModal", "AuthProvider", "Header"}

\* the subscription an effect run opens: the view, the feed and the number
\* of the set-up that made it (each run makes its own channel and closure)
Subscription(view, feed, cycle) ==
    [view |-> view, feed |-> feed, cycle |-> cycle]

\* the channels and auth-change listeners a view subscribes when it mounts
\* (LikeButton.tsx:27-40, Issues.tsx:101-115 and 153-166, AuthProvider.tsx:14-16)
MountFeeds(view) ==
    CASE view = "LikeButton" -> {"likes_changes"}
      [] view = "Issues" -> {"issues_channel", "likes_channel"}
      [] view = "AuthProvider" -> {"auth"}
      [] OTHER -> {}

\* the level-up listeners a view registers on the bus when it mounts
\* (Header.tsx:15-22, IssueDetailModal.tsx:339-344)
LevelUpFeeds(view) ==
    IF view \in {"Header", "IssueDetailModal"} THEN {"levelUp"} ELSE {}

\* the xp-change listener the modal registers (IssueDetailModal.tsx:346-349)
XPChangeFeeds(view) ==
    IF view = "IssueDetailModal" THEN {"xpChange"} ELSE {}

Opened(view, feeds, cycle) ==
    {Subscription(view, feed, cycle) : feed \in feeds}

\* a listener array after every listener of the set has been subscribed
RECURSIVE Subscribed(_, _)
Subscribed(listeners, new) ==
    IF new = {} THEN listeners
    ELSE LET s == CHOOSE x \in new : TRUE
         IN  Subscribed(Append(listeners, s), new \ {s})

\* a listener array after the unsubscribe function of every listener of the
\* set has been called (auth.ts:66, 73)
RECURSIVE Unsubscribed(_, _)
Unsubscribed(listeners, old) ==
    IF old = {} THEN listeners
    ELSE LET s == CHOOSE x \in old : TRUE
         IN  Unsubscribed(Without(listeners, s), old \ {s})

\* every subscription that can still call back into a view
ActiveSubscriptions ==
    subscriptions
        \cup {levelUpListeners[i] : i \in 1..Len(levelUpListeners)}
        \cup {xpChangeListeners[i] : i \in 1..Len(xpChangeListeners)}

\* the cleanups React runs: each calls the unsubscribe of its subscriptions
RunCleanups(mine) ==
    /\ subscriptions' = subscriptions \ mine
    /\ levelUpListeners' = Unsubscribed(levelUpListeners, mine)
    /\ xpChangeListeners' = Unsubscribed(xpChangeListeners, mine)
    /\ unsubscribed' = unsubscribed (+) SetToBag(mine)

\* React mounts a view and runs its effects: each subscribes and returns its
\* cleanup. The modal mounts closed (Issues.tsx:436-441).
mountView(view) ==
    /\ mounts < MaxMounts
    /\ view \notin mounted
    /\ mounts' = mounts + 1
    /\ mounted' = mounted \cup {view}
    /\ LET cycle == mounts + 1
       IN  /\ subscriptions' =
                  subscriptions \cup Opened(view, MountFeeds(view), cycle)
           /\ levelUpListeners' =
                  Subscribed(levelUpListeners, Opened(view, LevelUpFeeds(view), cycle))
           /\ xpChangeListeners' =
                  Subscribed(xpChangeListeners, Opened(view, XPChangeFeeds(view), cycle))
           /\ cleanups' = cleanups
                  \cup Opened(view, MountFeeds(view), cycle)
                  \cup Opened(view, LevelUpFeeds(view), cycle)
                  \cup Opened(view, XPChangeFeeds(view), cycle)
    /\ UNCHANGED <<isOpen, sessionCalls, unsubscribed>>
    /\ UNCHANGED <<perdoruesit, user, lastCongratulatedLevel, calls, awards,
                   last, congratulated, delivery, ledger, issueVars, likeVars,
                   registerVars>>

\* React unmounts a view and runs the cleanups its effects returned
unmountView(view) ==
    /\ view \in mounted
    /\ mounted' = mounted \ {view}
    /\ isOpen' = IF view = "IssueDetailModal" THEN FALSE ELSE isOpen
    /\ LET mine == {s \in cleanups : s.view = view}
       IN  /\ RunCleanups(mine)
           /\ cleanups' = cleanups \ mine
    /\ UNCHANGED <<sessionCalls, mounts>>
    /\ UNCHANGED <<perdoruesit, user, lastCongratulatedLevel, calls, awards,
                   last, congratulated, delivery, ledger, issueVars, likeVars,
                   registerVars>>

\* issueId or user of a mounted LikeButton changes: the effect's cleanup
\* runs and the effect subscribes again (LikeButton.tsx:20-46)
LikeButton_effectRerun ==
    /\ mounts < MaxMounts
    /\ "LikeButton" \in mounted
    /\ mounts' = mounts + 1
    /\ LET mine == {s \in cleanups : s.view = "LikeButton"}
           again == Opened("LikeButton", MountFeeds("LikeButton"), mounts + 1)
       IN  /\ subscriptions' = (subscriptions \ mine) \cup again
           /\ unsubscribed' = unsubscribed (+) SetToBag(mine)
           /\ cleanups' = (cleanups \ mine) \cup again
    /\ UNCHANGED <<mounted, isOpen, sessionCalls>>
    /\ UNCHANGED <<authVars, issueVars, likeVars, registerVars>>

\* isOpen becomes true with an issue selected: the comments effect
\* subscribes and returns its cleanup (IssueDetailModal.tsx:52-79); the
\* session effect calls its async getSession and returns nothing
\* (IssueDetailModal.tsx:81-98)
IssueDetailModal_open ==
    /\ mounts < MaxMounts
    /\ "IssueDetailModal" \in mounted
    /\ ~isOpen
    /\ mounts' = mounts + 1
    /\ isOpen' = TRUE
    /\ LET comments == Opened("IssueDetailModal", {"comments_changes"}, mounts + 1)
       IN  /\ subscriptions' = subscriptions \cup comments
           /\ cleanups' = cleanups \cup comments
    /\ sessionCalls' = sessionCalls \cup {mounts + 1}
    /\ UNCHANGED <<mounted, unsubscribed>>
    /\ UNCHANGED <<authVars, issueVars, likeVars, registerVars>>

\* isOpen becomes false: the cleanup of the comments effect runs
IssueDetailModal_close ==
    /\ "IssueDetailModal" \in mounted
    /\ isOpen
    /\ isOpen' = FALSE
    /\ LET mine == {s \in cleanups : s.feed = "comments_changes"}
       IN  /\ subscriptions' = subscriptions \ mine
           /\ unsubscribed' = unsubscribed (+) SetToBag(mine)
           /\ cleanups' = cleanups \ mine
    /\ UNCHANGED <<mounted, sessionCalls, mounts>>
    /\ UNCHANGED <<authVars, issueVars, likeVars, registerVars>>

\* await supabase.auth.getSession() resolves inside the async getSession of
\* the session effect: it registers the auth-change listener; the function
\* it returns goes to the promise nobody reads, so no cleanup holds the
\* subscription (IssueDetailModal.tsx:84-92)
IssueDetailModal_sessionResolved(cycle) ==
    /\ cycle \in sessionCalls
    /\ sessionCalls' = sessionCalls \ {cycle}
    /\ subscriptions' =
           subscriptions \cup Opened("IssueDetailModal", {"auth"}, cycle)
    /\ UNCHANGED <<mounted, isOpen, cleanups, mounts, unsubscribed>>
    /\ UNCHANGED <<authVars, issueVars, likeVars, registerVars>>

\* await supabase.auth.getSession() rejects: nothing is subscribed
IssueDetailModal_sessionFailed(cycle) ==
    /\ cycle \in sessionCalls
    /\ sessionCalls' = sessionCalls \ {cycle}
    /\ UNCHANGED <<mounted, isOpen, subscriptions, cleanups, mounts, unsubscribed>>
    /\ UNCHANGED <<authVars, issueVars, likeVars, registerVars>>

\* nothing is mounted
InitMounts ==
    /\ mounted = {}
    /\ isOpen = FALSE
    /\ subscriptions = {}
    /\ cleanups = {}
    /\ sessionCalls = {}
    /\ mounts = 0
    /\ unsubscribed = EmptyBag

\* ------------------------------------------------------------ registration
\* handleSubmit calls of the registration form in one run of the model
MaxSubmits == 2

\* password.length < 6
MinPasswordLength == 6

\* what the user can type, as sequences of characters: passwords of 5 and 6
\* characters, two of them different; names that are empty, blank, plain and
\* padded
Passwords ==
    {<<"p", "p", "p", "p", "p">>,
     <<"p", "p", "p", "p", "p", "p">>,
     <<"p", "p", "p", "p", "p", "q">>}
Names == {<<>>, <<" ">>, <<"a">>, <<" ", "a", " ">>}
Roles == {"citizen", "institution"}
SecretKeys == {"", "wrong", "çelsisekretperadmin"}

\* String.prototype.trim
RECURSIVE TrimStart(_)
TrimStart(s) ==
    IF s # <<>> /\ Head(s) = " " THEN TrimStart(Tail(s)) ELSE s

RECURSIVE TrimEnd(_)
TrimEnd(s) ==
    IF s # <<>> /\ s[Len(s)] = " " THEN TrimEnd(SubSeq(s, 1, Len(s) - 1)) ELSE s

Trim(s) == TrimEnd(TrimStart(s))

\* useState of the form (Register, lines 104-113)
RegisterForm(password, confirmPassword, emri, role, secretKey) ==
    [password |-> password, confirmPassword |-> confirmPassword, emri |-> emri,
     role |-> role, secretKey |-> secretKey, loading |-> FALSE, error |-> "null"]

\* a validation with the name check left out
ValidationErrorWithoutName(form) ==
    IF form.password # form.confirmPassword THEN "Passwords do not match"
    ELSE IF Len(form.password) < MinPasswordLength
    THEN "Password must be at least 6 characters long"
    ELSE IF form.role = "institution"
             /\ (form.secretKey = "" \/ form.secretKey # "çelsisekretperadmin")
    THEN "Çelësi sekret është i pasaktë ose i zbrazët."
    ELSE "null"

\* the checks of handleSubmit in their order (Register, lines 125-151): the
\* message of the first that fails, or "null"
ValidationError(form) ==
    IF form.password # form.confirmPassword THEN "Passwords do not match"
    ELSE IF Len(form.password) < MinPasswordLength
    THEN "Password must be at least 6 characters long"
    ELSE IF Trim(form.emri) = <<>> THEN "Name is required"
    ELSE IF form.role = "institution"
             /\ (form.secretKey = "" \/ form.secretKey # "çelsisekretperadmin")
    THEN "Çelësi sekret është i pasaktë ose i zbrazët."
    ELSE "null"

\* the arguments of supabase.rpc('register_user', ...) (Register, lines 155-161)
RegisterRequest(form) ==
    [emri |-> Trim(form.emri), password |-> form.password, roli |-> form.role,
     secret_key |-> IF form.secretKey = "" THEN "null" ELSE form.secretKey]

\* how the awaited register_user call can come back (Register, lines 163-191)
RegisterOutcomes == {"rpcError", "data.error", "success", "unknown", "throws"}

\* what each input of the form can be set to
FieldValues(field) ==
    CASE field = "password" -> Passwords
      [] field = "confirmPassword" -> Passwords
      [] field = "emri" -> Names
      [] field = "role" -> Roles
      [] field = "secretKey" -> SecretKeys

RegisterFields == {"password", "confirmPassword", "emri", "role", "secretKey"}

\* the onChange handler of one input (Register, lines 222-364); the inputs
\* stay editable while a request is awaited
Register_change(field, value) ==
    /\ submits < MaxSubmits
    /\ register[field] # value
    /\ register' = [register EXCEPT ![field] = value]
    /\ UNCHANGED <<registerCalls, registerRequests, registerToasts, submits>>
    /\ UNCHANGED <<authVars, issueVars, likeVars, mountVars>>

\* handleSubmit up to its first await (Register, lines 120-161): a failed
\* check sets the message, clears loading and returns; else the request is
\* sent. The submit button is disabled while loading (line 382).
Register_handleSubmit ==
    /\ submits < MaxSubmits
    /\ ~register.loading
    /\ submits' = submits + 1
    /\ LET message == ValidationError(register)
       IN  IF message # "null"
           THEN /\ register' = [register EXCEPT !.error = message,
                                                !.loading = FALSE]
                /\ UNCHANGED <<registerCalls, registerRequests>>
           ELSE /\ register' = [register EXCEPT !.error = "null",
                                                !.loading = TRUE]
                /\ registerCalls' = registerCalls \cup {submits + 1}
                /\ registerRequests' =
                       Append(registerRequests, RegisterRequest(register))
    /\ UNCHANGED registerToasts
    /\ UNCHANGED <<authVars, issueVars, likeVars, mountVars>>

\* the await ends and handleSubmit runs to its end (Register, lines 163-195)
Register_resume(call, outcome) ==
    /\ call \in registerCalls
    /\ registerCalls' = registerCalls \ {call}
    /\ LET message == CASE outcome = "rpcError" -> "rpcError.message"
                        [] outcome = "data.error" -> "data.error"
                        [] outcome = "unknown" -> "Unknown error occurred"
                        [] outcome = "throws" -> "Failed to sign up"
                        [] OTHER -> "null"
       IN  /\ register' =
                  [register EXCEPT !.loading = FALSE,
                                   !.error = IF outcome = "success" THEN @ ELSE message]
           /\ registerToasts' =
                  Append(registerToasts,
                         IF outcome = "success"
                         THEN "Registration successful! Please log in."
                         ELSE message)
    /\ UNCHANGED <<registerRequests, submits>>
    /\ UNCHANGED <<authVars, issueVars, likeVars, mountVars>>

\* the form as it is rendered first
InitRegister ==
    /\ register = RegisterForm(<<>>, <<>>, <<>>, "citizen", "")
    /\ registerCalls = {}
    /\ registerRequests = <<>>
    /\ registerToasts = <<>>
    /\ submits = 0

\* no view is open and the issue has no like
InitPage ==
    /\ likes = [id \in Users |-> 0]
    /\ views = [v \in Views |-> View("LikeButton", 0, FALSE)]
    /\ likeCalls = {}
    /\ toggles = 0
    /\ likeLog = <<>>
    /\ InitMounts
    /\ InitRegister

\* ------------------------------------------------------------ specifications
NoLedger == [xp |-> 0, level |-> 0, toNext |-> 0, done |-> FALSE]

Init ==
    /\ perdoruesit = [id \in Users |-> NoRow]
    /\ user = NullUser
    /\ lastCongratulatedLevel = <<>>
    /\ levelUpListeners = <<>>
    /\ xpChangeListeners = <<>>
    /\ calls = EmptyBag
    /\ awards = 0
    /\ last = NoLast
    /\ congratulated = [id \in Users |-> <<>>]
    /\ delivery = NoDelivery
    /\ ledger = NoLedger
    /\ InitIssueStore
    /\ InitPage

\* the session store with the views that subscribe to the bus
Next ==
    \/ \E id \in Users : signUp(id)
    \/ \E id \in Users : signIn(id)
    \/ signOut
    \/ \E id \in Users : getSession(id)
    \/ getSessionNone
    \/ \E id \in Users, deltaXP \in Deltas : updateUserXPFetch(id, deltaXP)
    \/ updateUserXPFetchError
    \/ \E call \in BagToSet(calls) : updateUserXPUpdate(call)
    \/ \E call \in BagToSet(calls) : updateUserXPUpdateError(call)
    \/ \E call \in BagToSet(calls) : updateUserXPResume(call)
    \/ \E listener \in ViewListeners :
           Registered < MaxViewListeners /\ subscribeToLevelUp(listener)
    \/ \E listener \in ViewListeners :
           Registered < MaxViewListeners /\ subscribeToXPChange(listener)
    \/ \E listener \in ViewListeners : unsubscribeLevelUp(listener)
    \/ \E listener \in ViewListeners : unsubscribeXPChange(listener)
    \/ reload

Spec == Init /\ [][Next]_vars

\* the notification bus on its own: any callbacks, any payload
NotifyValues == {1, 2}

NextBus ==
    \/ \E listener \in Listeners : subscribeToLevelUp(listener)
    \/ \E listener \in Listeners : subscribeToXPChange(listener)
    \/ \E listener \in Listeners : unsubscribeLevelUp(listener)
    \/ \E listener \in Listeners : unsubscribeXPChange(listener)
    \/ \E level \in NotifyValues : notifyLevelUp(level)
    \/ \E xp \in NotifyValues : notifyXPChange(xp)

SpecBus == Init /\ [][NextBus]_vars

\* the pure ledger functions on every input 0 .. MaxLedgerXP
InitLedger ==
    /\ perdoruesit = [id \in Users |-> NoRow]
    /\ user = NullUser
    /\ lastCongratulatedLevel = <<>>
    /\ levelUpListeners = <<>>
    /\ xpChangeListeners = <<>>
    /\ calls = EmptyBag
    /\ awards = 0
    /\ last = NoLast
    /\ congratulated = [id \in Users |-> <<>>]
    /\ delivery = NoDelivery
    /\ \E xp \in 0..MaxLedgerXP : ledger = [NoLedger EXCEPT !.xp = xp]
    /\ InitIssueStore
    /\ InitPage

\* the header shows the level of an XP total and the XP missing to the next
evaluateLedger ==
    /\ ~ledger.done
    /\ ledger' = [xp |-> ledger.xp, level |-> calculateLevel(ledger.xp),
                  toNext |-> getXPToNextLevel(ledger.xp), done |-> TRUE]
    /\ UNCHANGED <<levelUpListeners, xpChangeListeners, delivery, issueVars, pageVars>>
    /\ UNCHANGED storeVars

NextLedger == evaluateLedger

SpecLedger == InitLedger /\ [][NextLedger]_vars

\* the issue store, with both identities registered and either, or none,
\* signed in; the page is opened (empty cache) or has loaded
InitIssues ==
    /\ perdoruesit = [id \in Users |-> Row(SignUpXP, SignUpLevel)]
    /\ \E id \in Users :
           user \in {NullUser, UserOf(id, Row(SignUpXP, SignUpLevel))}
    /\ lastCongratulatedLevel = <<>>
    /\ levelUpListeners = <<>>
    /\ xpChangeListeners = <<>>
    /\ calls = EmptyBag
    /\ awards = 0
    /\ last = NoLast
    /\ congratulated = [id \in Users |-> <<>>]
    /\ delivery = NoDelivery
    /\ ledger = NoLedger
    /\ (InitIssueStore \/ LoadedIssueStore)
    /\ InitPage

NextIssues ==
    \/ fetchIssues
    \/ \E call \in issueCalls : fetchIssuesServed(call)
    \/ \E call \in issueCalls : fetchIssuesFailed(call)
    \/ \E call \in issueCalls : fetchIssuesResume(call)
    \/ addIssueNoUser
    \/ \E description \in NewDescriptions, isFile \in BOOLEAN :
           addIssue(description, isFile)
    \/ \E call \in issueCalls : addIssueUploaded(call)
    \/ \E call \in issueCalls : addIssueInserted(call)
    \/ \E call \in issueCalls : addIssueRefetched(call)
    \/ \E call \in issueCalls : addIssueFailed(call)
    \/ \E call \in issueCalls : addIssueResume(call)
    \/ \E issueId \in IssueIds, newStatus \in Statuses :
           updateIssueStatus(issueId, newStatus)
    \/ \E issueId \in IssueIds, description \in Descriptions, isFile \in BOOLEAN :
           updateIssue(issueId, description, isFile)
    \/ \E call \in issueCalls : updateIssueUploaded(call)
    \/ \E call \in issueCalls : updateWritten(call)
    \/ \E call \in issueCalls : updateFailed(call)
    \/ \E call \in issueCalls : updateResume(call)
    \/ \E call \in issueCalls : auditInserted(call)
    \/ \E call \in issueCalls : auditFailed(call)
    \/ \E issueId \in IssueIds : deleteIssue(issueId)
    \/ \E call \in issueCalls : deleteIssueServed(call)
    \/ \E call \in issueCalls : deleteIssueFailed(call)
    \/ \E call \in issueCalls : deleteIssueResume(call)
    \/ \E issueId \in IssueIds, newStatus \in RemoteStatuses :
           remoteStatusUpdate(issueId, newStatus)

SpecIssues == InitIssues /\ [][NextIssues]_vars

\* the like views of one issue: identity 1 is signed in, the other identity
\* likes the issue or not, and each view has fetched the count and its flag
InitLikes ==
    /\ perdoruesit = [id \in Users |-> Row(SignUpXP, SignUpLevel)]
    /\ user = UserOf(Liker, Row(SignUpXP, SignUpLevel))
    /\ lastCongratulatedLevel = <<>>
    /\ levelUpListeners = <<>>
    /\ xpChangeListeners = <<>>
    /\ calls = EmptyBag
    /\ awards = 0
    /\ last = NoLast
    /\ congratulated = [id \in Users |-> <<>>]
    /\ delivery = NoDelivery
    /\ ledger = NoLedger
    /\ InitIssueStore
    /\ \E mine \in {0, 1}, others \in {0, 1} :
           likes = [id \in Users |-> IF id = Liker THEN mine ELSE others]
    /\ \E kinds \in [Views -> ViewKinds] :
           views = [v \in Views |->
                      View(kinds[v], LikeCount(likes), likes[Liker] > 0)]
    /\ likeCalls = {}
    /\ toggles = 0
    /\ likeLog = <<>>
    /\ InitMounts
    /\ InitRegister

NextLikes ==
    \/ \E v \in Views : LikeButton_handleLike(v)
    \/ \E call \in likeCalls : LikeButton_toggleServed(call)
    \/ \E call \in likeCalls : LikeButton_toggleFailed(call)
    \/ \E call \in likeCalls : LikeButton_resume(call)
    \/ \E v \in Views : IssueDetailModal_handleLike(v)
    \/ \E call \in likeCalls : IssueDetailModal_deleteServed(call)
    \/ \E call \in likeCalls : IssueDetailModal_insertServed(call)
    \/ \E call \in likeCalls : IssueDetailModal_deleted(call)
    \/ \E call \in likeCalls : IssueDetailModal_inserted(call)
    \/ \E call \in likeCalls : IssueDetailModal_awarded(call)
    \/ \E call \in likeCalls : IssueDetailModal_countServed(call)
    \/ \E call \in likeCalls : IssueDetailModal_failed(call)
    \/ \E call \in likeCalls : IssueDetailModal_resume(call)

SpecLikes == InitLikes /\ [][NextLikes]_vars

\* the views mount, open, close and unmount in any order
NextViews ==
    \/ \E view \in MountViews : mountView(view)
    \/ \E view \in MountViews : unmountView(view)
    \/ LikeButton_effectRerun
    \/ IssueDetailModal_open
    \/ IssueDetailModal_close
    \/ \E cycle \in sessionCalls : IssueDetailModal_sessionResolved(cycle)
    \/ \E cycle \in sessionCalls : IssueDetailModal_sessionFailed(cycle)

SpecViews == Init /\ [][NextViews]_vars

\* the registration form is filled in and submitted
NextRegister ==
    \/ \E field \in RegisterFields : \E value \in FieldValues(field) :
           Register_change(field, value)
    \/ Register_handleSubmit
    \/ \E call \in registerCalls, outcome \in RegisterOutcomes :
           Register_resume(call, outcome)

SpecRegister == Init /\ [][NextRegister]_vars

\* ------------------------------------------------------------ claims
\* The steps of an updateUserXP call, recognised by what they do to the
\* calls in flight: the select fails, the update fails, the call resumes.
FetchStep ==
    awards' = awards + 1 /\ calls' # calls

FetchErrorStep ==
    awards' = awards + 1 /\ calls' = calls

UpdateStep(call) ==
    /\ BagIn(call, calls)
    /\ call.pc = "fetched"
    /\ calls' = (calls (-) SetToBag({call}))
                   (+) SetToBag({[call EXCEPT !.pc = "updated"]})

UpdateErrorStep(call) ==
    /\ BagIn(call, calls)
    /\ call.pc = "fetched"
    /\ calls' = calls (-) SetToBag({call})
    /\ last'.op = "updateError"

ResumeStep(call) ==
    /\ BagIn(call, calls)
    /\ call.pc = "updated"
    /\ calls' = calls (-) SetToBag({call})
    /\ last'.op = "resume"

\* the award targets the identity the store holds when the call resumes
Targeted(call) ==
    user # NullUser /\ user.perdorues_id = call.userId

\* the level the session holds for the cached identity: the level it last
\* congratulated, or else the cached level
SessionLevel ==
    IF user.perdorues_id \in DOMAIN lastCongratulatedLevel
    THEN lastCongratulatedLevel[user.perdorues_id]
    ELSE user.leveli

StrictlyIncreasing(levels) ==
    \A i, j \in 1..Len(levels) : i < j => levels[i] < levels[j]

C1_NoLevelTwice ==
    \A id \in Users : StrictlyIncreasing(congratulated[id])

C1_AwardStep ==
    \A call \in BagToSet(calls) :
        ResumeStep(call) =>
            /\ congratulated' =
                   [congratulated EXCEPT ![call.userId] = @ \o last'.levelUps]
            /\ last'.levelUps \in {<<>>, <<call.newLevel>>}
            /\ (Targeted(call) /\ call.newLevel <= SessionLevel)
                   => last'.levelUps = <<>>
            /\ (Targeted(call) /\ call.newLevel > SessionLevel)
                   => last'.levelUps = <<call.newLevel>>

\* C1: within one session the level-ups published for an identity carry
\* strictly increasing levels, so no level value is published twice; an award
\* publishes at most one level-up and it carries the award's final level; an
\* award whose level is not above the level the session holds for the
\* authenticated identity (an unchanged level, or a level already
\* congratulated) publishes none; an award whose level is above it publishes
\* exactly one, however many levels it crosses.
C1_OncePerLevel ==
    []C1_NoLevelTwice /\ [][C1_AwardStep]_vars

\* an award that crossed two levels at once published one level-up, after an
\* earlier level-up of the same identity
C1_Witness ==
    \E id \in Users :
        /\ user.perdorues_id = id
        /\ Len(congratulated[id]) = 2
        /\ congratulated[id][2] >= congratulated[id][1] + 2
        /\ last.op = "resume"
        /\ last.levelUps = <<congratulated[id][2]>>

\* C2: every updateUserXP call whose select and update both succeeded
\* publishes exactly one xp-change event carrying the new XP total, whether
\* or not a level-up was published and whichever identity it targets.
C2_EveryAwardPublishesXPChange ==
    [][\A call \in BagToSet(calls) :
           ResumeStep(call) => last'.xpChanges = <<call.newXP>>]_vars

\* C3: when the select or the update of updateUserXP fails the call rejects,
\* publishes no event and leaves the cached identity, the last congratulated
\* levels and both listener arrays as they were.
C3_FailureLeavesStateUntouched ==
    [][(FetchErrorStep \/ \E call \in BagToSet(calls) : UpdateErrorStep(call))
          => /\ last'.outcome = "rejected"
             /\ last'.levelUps = <<>>
             /\ last'.xpChanges = <<>>
             /\ UNCHANGED <<user, lastCongratulatedLevel, levelUpListeners,
                            xpChangeListeners, congratulated>>]_vars

\* the update of an award failed in a session that holds an identity, a
\* congratulated level and a registered listener
C3_Witness ==
    /\ last.op = "updateError"
    /\ last.outcome = "rejected"
    /\ user # NullUser
    /\ user.perdorues_id \in DOMAIN lastCongratulatedLevel
    /\ Registered > 0

\* C4: a cached identity always has level floor(XP / 50) + 1 of its cached XP.
C4_LevelMatchesXP ==
    user # NullUser => user.leveli = (user.pike_eksperience \div 50) + 1

\* C5: an award publishes a level-up only if the level of its new XP is
\* strictly above the level of the XP that was stored before the award.
C5_LevelUpOnlyOnIncrease ==
    [][\A call \in BagToSet(calls) :
           (ResumeStep(call) /\ last'.levelUps # <<>>)
               => (call.newXP \div 50) + 1 > (call.currentXP \div 50) + 1]_vars

C6_Frames ==
    \A call \in BagToSet(calls) :
        /\ call.newXP = call.currentXP + call.deltaXP
        /\ 50 * (call.newLevel - 1) <= call.newXP
        /\ call.newXP < 50 * call.newLevel

C6_FetchStep ==
    FetchStep =>
        \E call \in BagToSet(calls') :
            /\ calls' = calls (+) SetToBag({call})
            /\ call.pc = "fetched"
            /\ call.currentXP = perdoruesit[call.userId].pike_eksperience

C6_UpdateStep ==
    \A call \in BagToSet(calls) :
        UpdateStep(call) =>
            perdoruesit' = [perdoruesit EXCEPT ![call.userId] =
                [exists |-> TRUE, pike_eksperience |-> call.newXP,
                 leveli |-> call.newLevel]]

C6_ResumeStep ==
    \A call \in BagToSet(calls) :
        (ResumeStep(call) /\ Targeted(call) /\ last'.outcome = "resolved")
            => user' = [perdorues_id |-> call.userId,
                        pike_eksperience |-> call.newXP,
                        leveli |-> call.newLevel]

\* C6: updateUserXP takes newXP as the XP stored in the table when its select
\* is served plus deltaXP, whatever the cached XP and the sign of deltaXP, and
\* newLevel as floor(newXP / 50) + 1; its update writes both to the row in one
\* statement; when the call resolves for the cached identity the cached XP
\* and level are the pair it wrote.
C6_AwardArithmetic ==
    []C6_Frames /\ [][C6_FetchStep /\ C6_UpdateStep /\ C6_ResumeStep]_vars

\* a penalty was computed from a stored XP the cache does not show, and
\* written to the row
C6_Witness ==
    \E call \in BagToSet(calls) :
        /\ call.pc = "updated"
        /\ call.deltaXP < 0
        /\ user.perdorues_id = call.userId
        /\ user.pike_eksperience # call.currentXP
        /\ perdoruesit[call.userId].pike_eksperience = call.newXP
        /\ perdoruesit[call.userId].leveli = call.newLevel

\* C7: for every xp >= 0 calculateLevel(xp) is floor(xp / 50) + 1, the one
\* level whose band of 50 holds xp; 0 and 49 give 1, 50 gives 2, 149 gives 3.
C7_LevelFor ==
    ledger.done =>
        /\ 50 * (ledger.level - 1) <= ledger.xp
        /\ ledger.xp < 50 * ledger.level
        /\ ledger.xp = 0 => ledger.level = 1
        /\ ledger.xp = 49 => ledger.level = 1
        /\ ledger.xp = 50 => ledger.level = 2
        /\ ledger.xp = 149 => ledger.level = 3

C7_Witness ==
    ledger.done /\ ledger.xp = 149 /\ ledger.level = 3

\* C8 as stated: for every xp >= 0 getXPToNextLevel(xp) is non-negative and
\* is 0 exactly when xp is a multiple of 50.
C8_ZeroOnBoundary ==
    ledger.done =>
        /\ ledger.toNext >= 0
        /\ ledger.toNext = 0 <=> ledger.xp % 50 = 0

\* C8 amended: for every xp >= 0 getXPToNextLevel(xp) is between 1 and 50,
\* never 0; it is the distance to the next multiple of 50 above xp, and is 50
\* exactly when xp is a multiple of 50.
C8_DistanceToNextBand ==
    ledger.done =>
        /\ ledger.toNext \in 1..50
        /\ (ledger.xp + ledger.toNext) % 50 = 0
        /\ ledger.toNext = 50 <=> ledger.xp % 50 = 0

C8_Witness ==
    ledger.done /\ ledger.xp = 50 /\ ledger.toNext = 50

Elements(listeners) ==
    {listeners[i] : i \in 1..Len(listeners)}

C9_Delivered ==
    delivery.channel # "none" =>
        \A i \in 1..Len(delivery.registered) :
            /\ i <= Len(delivery.invoked)
            /\ delivery.invoked[i] = [listener |-> delivery.registered[i],
                                      payload |-> delivery.payload]

C9_BusStep ==
    /\ delivery'.channel = "levelUp" => delivery'.registered = levelUpListeners
    /\ delivery'.channel = "xpChange" => delivery'.registered = xpChangeListeners
    /\ (delivery'.channel = "none" /\ Len(levelUpListeners') < Len(levelUpListeners))
           => \E listener \in Elements(levelUpListeners) :
                  levelUpListeners' =
                      SelectSeq(levelUpListeners, LAMBDA l : l # listener)
    /\ (delivery'.channel = "none" /\ Len(xpChangeListeners') < Len(xpChangeListeners))
           => \E listener \in Elements(xpChangeListeners) :
                  xpChangeListeners' =
                      SelectSeq(xpChangeListeners, LAMBDA l : l # listener)

\* C9: a publish on a channel invokes every listener registered on it when
\* the publish starts, once each, in registration order and with the one
\* payload of the publish; the listeners registered are those subscribed and
\* not unsubscribed before, in their order of subscription.
C9_EachListenerOnceInOrder ==
    []C9_Delivered /\ [][C9_BusStep]_vars

\* C10: a publish invokes exactly the listeners registered when it began; a
\* listener subscribed by a callback during the delivery is not invoked for
\* the event in flight.
C10_SnapshotDelivery ==
    delivery.channel # "none" =>
        /\ \A i \in 1..Len(delivery.invoked) :
               /\ i <= Len(delivery.registered)
               /\ delivery.invoked[i].listener = delivery.registered[i]
        /\ {delivery.invoked[i].listener : i \in 1..Len(delivery.invoked)}
               = Elements(delivery.registered)

C11_LaterListenersInvoked ==
    delivery.channel # "none" =>
        \A i \in 1..Len(delivery.registered) :
            delivery.registered[i] = Thrower =>
                \A k \in (i + 1)..Len(delivery.registered) :
                    /\ k <= Len(delivery.invoked)
                    /\ delivery.invoked[k].listener = delivery.registered[k]

C11_AwardStep ==
    \A call \in BagToSet(calls) :
        (ResumeStep(call) /\ Targeted(call))
            => /\ user' = [perdorues_id |-> call.userId,
                           pike_eksperience |-> call.newXP,
                           leveli |-> call.newLevel]
               /\ last'.xpChanges = <<call.newXP>>

\* C11: when a listener throws during a publish, the listeners registered
\* after it on the channel are still invoked for the event; and an award
\* whose publish met a throwing listener still writes the cached identity
\* and publishes its xp-change.
C11_ThrowingListenerIsolated ==
    []C11_LaterListenersInvoked /\ [][C11_AwardStep]_vars

\* the array with the registration at position i taken out
RemoveAt(listeners, i) ==
    [k \in 1..(Len(listeners) - 1) |->
        IF k < i THEN listeners[k] ELSE listeners[k + 1]]

RemovesOneRegistration(before, after) ==
    Len(after) < Len(before) =>
        \E i \in 1..Len(before) : after = RemoveAt(before, i)

\* C12: a call of the function a subscribe returned takes exactly one
\* registration out of the channel's array, the one it was returned for, also
\* when the callback is registered more than once; every other registration
\* stays.
C12_UnsubscribeRemovesOne ==
    [][delivery'.channel = "none" =>
          /\ RemovesOneRegistration(levelUpListeners, levelUpListeners')
          /\ RemovesOneRegistration(xpChangeListeners, xpChangeListeners')]_vars


\* The steps of an issue-store operation, recognised by what they do to the
\* operations in flight: the operation ends (its frame is dropped), or it
\* moves on to another await.
IssueEndStep(call) ==
    call \in issueCalls /\ issueCalls' = issueCalls \ {call}

IssueMoveStep(call, pc) ==
    /\ call \in issueCalls
    /\ call \notin issueCalls'
    /\ \E next \in issueCalls' :
          /\ next.seq = call.seq /\ next.pc = pc
          /\ issueCalls' = (issueCalls \ {call}) \cup {next}

\* C13: a failing fetchIssues leaves the issues cache exactly as it was,
\* records an error message and clears loading; a succeeding one replaces the
\* cache by the collection the select returned, which is the hosted table
\* as it was when the select was served.
C13_FetchStep ==
    \A call \in issueCalls :
        call.op = "fetchIssues" =>
            /\ (IssueEndStep(call) /\ call.pc = "requested") =>
                   /\ issues' = issues
                   /\ error' # "null"
                   /\ loading' = FALSE
            /\ (IssueEndStep(call) /\ call.pc = "served") =>
                   /\ issues' = call.response
                   /\ loading' = FALSE
            /\ IssueMoveStep(call, "served") =>
                   \A next \in issueCalls' \ issueCalls :
                       next.response = SelectIssues(issuesTable, 2)

C13_FetchFailureKeepsCache == [][C13_FetchStep]_vars

\* a fetch has failed over a populated cache, which is still populated
C13_Witness ==
    /\ lastIssue.op = "fetchIssues"
    /\ lastIssue.failed
    /\ issueCalls = {}
    /\ issues # <<>>
    /\ error # "null"
    /\ ~loading


\* C14: overlapping fetchIssues calls are neither coalesced nor discarded.
\* Each call makes its own select, each response that arrives is applied to
\* the cache whatever was applied before it, and once every operation has
\* ended after a fetch, the cache is the response of the fetch that resolved
\* last, whether or not it was the one requested last.
C14_CacheIsLastResponse ==
    (issueCalls = {} /\ lastIssue.op = "fetchIssues" /\ ~lastIssue.failed) =>
        /\ fetched # <<>>
        /\ fetched[Len(fetched)].seq = lastIssue.seq
        /\ issues = fetched[Len(fetched)].response

C14_EachCallServedAndApplied ==
    \A call \in issueCalls :
        (call.op = "fetchIssues" /\ call \notin issueCalls') =>
            IF call.pc = "served"
            THEN /\ issues' = call.response
                 /\ lastIssue' = Ended(call, "resolved", FALSE)
            ELSE \/ \E next \in issueCalls' :
                       /\ next.seq = call.seq
                       /\ next.pc = "served"
                       /\ next.response = SelectIssues(issuesTable, 2)
                 \/ lastIssue' = Ended(call, "resolved", TRUE)

C14_LastToResolveWins ==
    []C14_CacheIsLastResponse /\ [][C14_EachCallServedAndApplied]_vars

\* two fetches overlapped; the one requested second resolved first with the
\* table as it is now, the one requested first resolved last with an older
\* snapshot, and the cache shows the older snapshot
C14_Witness ==
    /\ issueCalls = {}
    /\ Len(fetched) = 2
    /\ fetched[1].seq > fetched[2].seq
    /\ fetched[1].response = SelectIssues(issuesTable, 2)
    /\ fetched[2].response # fetched[1].response
    /\ issues = fetched[2].response


UpdateOps == {"updateIssueStatus", "updateIssue"}

\* C15: updateIssueStatus and updateIssue change the cache only when they
\* resume after a write the service answered without error.  Every status
\* and description the cache shows is one the service has accepted for that
\* issue; a step of an update that is not that resumption (start, upload,
\* the write being served, a failure, the audit) leaves the cache alone, and
\* a failure records an error.
C15_CacheShowsAcceptedValues ==
    \A i \in 1..Len(issues) :
        /\ <<issues[i].id, "status", issues[i].status>> \in accepted
        /\ <<issues[i].id, "description", issues[i].description>> \in accepted

C15_UpdateStep ==
    /\ issueOps' = issueOps + 1 => issues' = issues
    /\ \A call \in issueCalls :
          (call.op \in UpdateOps /\ call \notin issueCalls') =>
              IF call.pc = "written"
              THEN /\ <<call.issueId, FieldOf(call.op), call.value>> \in accepted
                   /\ issues' = MergeField(issues, call.issueId,
                                           FieldOf(call.op), call.value)
              ELSE /\ issues' = issues
                   /\ (IssueEndStep(call) /\ call.pc \in {"upload", "requested"}) =>
                          /\ error' # "null"
                          /\ lastIssue'.failed

C15_CacheChangesAfterWrite ==
    []C15_CacheShowsAcceptedValues /\ [][C15_UpdateStep]_vars

\* a single update was sent and failed: the cache is what it was, which is
\* what the table holds, and an error is recorded
C15_Witness ==
    /\ issueOps = 1
    /\ issueCalls = {}
    /\ lastIssue.op \in UpdateOps
    /\ lastIssue.failed
    /\ error # "null"
    /\ issues # <<>>
    /\ issues = SelectIssues(issuesTable, 2)


\* C16: a succeeding addIssue puts the record it selected back, which
\* carries the id the table assigned, at index 0 of the cache and keeps the
\* previous entries after it in their order; a failing one (no cached
\* identity, upload, procedure call or select) leaves the cache as it was,
\* records an error, clears loading and rejects.
C16_AddStep ==
    /\ \A call \in issueCalls :
          (call.op = "addIssue" /\ IssueEndStep(call)) =>
              IF call.pc = "fetched"
              THEN /\ Len(issues') = Len(issues) + 1
                   /\ <<Head(issues')>> = call.response
                   /\ Head(issues').id = call.issueId
                   /\ call.issueId \in IssueIds
                   /\ Tail(issues') = issues
                   /\ lastIssue' = Ended(call, "resolved", FALSE)
              ELSE /\ issues' = issues
                   /\ error' # "null"
                   /\ loading' = FALSE
                   /\ lastIssue' = Ended(call, "rejected", TRUE)
    /\ (issueOps' = issueOps + 1 /\ issueCalls' = issueCalls) =>
          /\ user = NullUser
          /\ issues' = issues
          /\ error' # "null"
          /\ loading' = FALSE
          /\ lastIssue'.op = "addIssue"
          /\ lastIssue'.outcome = "rejected"

C16_AddPrependsOrRejects == [][C16_AddStep]_vars

\* an addIssue has succeeded over a loaded cache: the new issue 2 is first,
\* the issue cached before follows
C16_Witness ==
    /\ lastIssue.op = "addIssue"
    /\ ~lastIssue.failed
    /\ Len(issues) = 2
    /\ issues[1].id = 2
    /\ issues[2].id = 1
    /\ issuesTable[2].state = "present"


\* C17: deleteIssue sends the delete to the service first.  The id leaves
\* the cache only when the call resumes after a delete the service answered
\* without error, when the row is gone from the table; starting the call or
\* the delete being served leaves the cache alone, and a failing delete
\* leaves the issue in the cache and records an error.
C17_DeleteStep ==
    /\ (issueOps' = issueOps + 1 /\ \E call \in issueCalls' \ issueCalls :
                                        call.op = "deleteIssue") =>
          issues' = issues
    /\ \A call \in issueCalls :
          (call.op = "deleteIssue" /\ call \notin issueCalls') =>
              IF call.pc = "deleted"
              THEN /\ issuesTable[call.issueId].state # "present"
                   /\ issues' = SelectSeq(issues,
                                          LAMBDA issue : issue.id # call.issueId)
                   /\ lastIssue' = Ended(call, "resolved", FALSE)
              ELSE /\ issues' = issues
                   /\ IssueEndStep(call) =>
                          /\ error' # "null"
                          /\ lastIssue' = Ended(call, "resolved", TRUE)
                          /\ issuesTable' = issuesTable

C17_DeleteRemovesAfterSuccess == [][C17_DeleteStep]_vars

\* a single deleteIssue failed: the issue is still in the table and in the
\* cache, and an error is recorded
C17_Witness ==
    /\ issueOps = 1
    /\ lastIssue.op = "deleteIssue"
    /\ lastIssue.failed
    /\ InCache(1)
    /\ issuesTable[1].state = "present"
    /\ error # "null"


\* C18: when an institution's updateIssueStatus has written the new status,
\* the record it appends to ndryshimet holds as old_value the status the
\* issue had before the update, which is the status the row held when the
\* write was served, and as new_value the new status; a call of anyone else,
\* or one whose write failed, appends nothing.
C18_AuditStep ==
    \A call \in issueCalls :
        (call.op = "updateIssueStatus" /\ call \notin issueCalls') =>
            /\ ndryshimet' # ndryshimet =>
                  /\ call.pc = "audit"
                  /\ Roli(call.actor) = "institution"
                  /\ ndryshimet' = Append(ndryshimet,
                         [issue_id |-> call.issueId, perdorues_id |-> call.actor,
                          action |-> "status_update",
                          old_value |-> call.was, new_value |-> call.value])
            /\ (Roli(call.actor) # "institution" \/ call.pc = "requested") =>
                  ndryshimet' = ndryshimet

C18_AuditRecordsTransition == [][C18_AuditStep]_vars


\* C19: when the insert into ndryshimet fails after updateIssueStatus or
\* updateIssue has written and merged the new value, the call ends without
\* touching the cache or the table (no rollback), records no error and
\* resolves.
C19_AuditFailureStep ==
    \A call \in issueCalls :
        (call.pc = "audit" /\ IssueEndStep(call) /\ ndryshimet' = ndryshimet) =>
            /\ call.op \in UpdateOps
            /\ issues' = issues
            /\ issuesTable' = issuesTable
            /\ error' = error
            /\ loading' = loading
            /\ lastIssue' = Ended(call, "resolved", FALSE)

C19_AuditFailureIsSilent == [][C19_AuditFailureStep]_vars

\* the institution made one update whose audit insert failed: nothing was
\* appended, the call resolved, no error is recorded and the cache shows the
\* new value
C19_Witness ==
    /\ issueOps = 1
    /\ issueCalls = {}
    /\ Roli(user.perdorues_id) = "institution"
    /\ lastIssue.op \in UpdateOps
    /\ lastIssue.outcome = "resolved"
    /\ ~lastIssue.failed
    /\ ndryshimet = <<>>
    /\ error = "null"
    /\ Len(issues) = 1
    /\ (issues[1].status = "resolved" \/ issues[1].description = "d1")


\* C20: every issue-store operation clears loading before it completes,
\* whether its external calls succeed or fail: the step in which an
\* operation ends, or goes on to its audit insert, leaves loading false (the
\* end of the audit insert leaves it as it is), so whenever no operation is
\* in flight loading is false.
C20_IdleMeansNotLoading ==
    issueCalls = {} => loading = FALSE

C20_EndStep ==
    /\ \A call \in issueCalls :
          /\ (IssueEndStep(call) /\ call.pc # "audit") => loading' = FALSE
          /\ IssueMoveStep(call, "audit") => loading' = FALSE
          /\ (IssueEndStep(call) /\ call.pc = "audit") => loading' = loading
    /\ (issueOps' = issueOps + 1 /\ issueCalls' = issueCalls) => loading' = FALSE

C20_LoadingCleared == []C20_IdleMeansNotLoading /\ [][C20_EndStep]_vars

\* two operations have been started and both have ended, the last of them
\* in its catch block: loading is false
C20_Witness ==
    /\ issueOps = 2
    /\ issueCalls = {}
    /\ lastIssue.failed
    /\ error # "null"
    /\ loading = FALSE


\* C26: no award is lost when updateUserXP calls for one identity overlap.
\* The stored XP ends as the initial XP plus the sum of the deltas exactly
\* when every update that is served adds its delta to the XP stored at that
\* moment (and stores the level of that sum); an update that writes anything
\* else has lost, or doubled, an award.
C26_UpdateAddsDelta ==
    \A call \in BagToSet(calls) :
        UpdateStep(call) =>
            LET sum == perdoruesit[call.userId].pike_eksperience + call.deltaXP
            IN  /\ perdoruesit'[call.userId].pike_eksperience = sum
                /\ perdoruesit'[call.userId].leveli = calculateLevel(sum)

C26_NoAwardLost == [][C26_UpdateAddsDelta]_vars

\* C30: an updateUserXP call that resumes when the store holds no identity,
\* or another identity than its target, leaves the cached identity, the
\* congratulated levels and the listeners as they are, publishes nothing and
\* resolves; no resumption changes the id of the cached identity.
C30_ResumeStep ==
    \A call \in BagToSet(calls) :
        ResumeStep(call) =>
            /\ user'.perdorues_id = user.perdorues_id
            /\ ~Targeted(call) =>
                  /\ user' = user
                  /\ lastCongratulatedLevel' = lastCongratulatedLevel
                  /\ levelUpListeners' = levelUpListeners
                  /\ xpChangeListeners' = xpChangeListeners
                  /\ last'.levelUps = <<>>
                  /\ last'.xpChanges = <<>>
                  /\ last'.outcome = "resolved"

C30_StaleAwardLeavesSession == [][C30_ResumeStep]_vars

\* an award for an identity was persisted and its call resumed without
\* publishing, while the store holds the other identity with the XP it had
C30_Witness ==
    /\ last.op = "resume"
    /\ last.outcome = "resolved"
    /\ last.xpChanges = <<>>
    /\ user # NullUser
    /\ \E id \in Users :
          /\ id # user.perdorues_id
          /\ perdoruesit[id].exists
          /\ perdoruesit[id].pike_eksperience # SignUpXP
    /\ user.pike_eksperience = SignUpXP


\* C27: the issues cache never holds two entries with the same issue id,
\* however addIssue and fetchIssues interleave.
C27_OneEntryPerIssue ==
    \A i, j \in 1..Len(issues) : i # j => issues[i].id # issues[j].id

\* C28: while an issue-store operation is awaiting the service, loading is
\* true.
C28_LoadingWhileInFlight ==
    issueCalls # {} => loading = TRUE

\* C29: updateIssueStatus and deleteIssue always resolve, also when the write
\* failed and the error was recorded; addIssue and updateIssue that fail
\* record the error and reject; an operation that did not fail resolves.
C29_EndStep ==
    /\ \A call \in issueCalls :
          IssueEndStep(call) =>
              /\ lastIssue'.seq = call.seq
              /\ lastIssue'.failed => error' # "null"
              /\ call.op \in {"updateIssueStatus", "deleteIssue"} =>
                     lastIssue'.outcome = "resolved"
              /\ call.op \in {"addIssue", "updateIssue"} =>
                     (lastIssue'.outcome = "rejected" <=> lastIssue'.failed)
              /\ lastIssue'.outcome \in {"resolved", "rejected"}
    /\ (issueOps' = issueOps + 1 /\ issueCalls' = issueCalls) =>
          /\ lastIssue'.op = "addIssue"
          /\ lastIssue'.outcome = "rejected"
          /\ error' # "null"

C29_WhichOperationsReject == [][C29_EndStep]_vars

\* the write of an updateIssueStatus or deleteIssue failed: the error is in
\* the store and the call resolved
C29_Witness ==
    /\ lastIssue.op \in {"updateIssueStatus", "deleteIssue"}
    /\ lastIssue.failed
    /\ lastIssue.outcome = "resolved"
    /\ error # "null"


\* C21: whatever toggles the views of one identity interleave, the table
\* holds at most one like of an identity for the issue, so that the count of
\* the issue's rows is the number of identities that like it.
C21_AtMostOneLikePerPair ==
    /\ \A id \in Users : likes[id] <= 1
    /\ LikeCount(likes) = Cardinality({id \in Users : likes[id] > 0})

\* C22: a handleLike call that succeeded sent one request, the call of the
\* toggle procedure, and left its view showing the count and the membership
\* that call returned.
C22_ShownIsToggleResult ==
    \A i \in 1..Len(likeLog) :
        likeLog[i].ok =>
            /\ likeLog[i].requests = <<"toggle_like">>
            /\ likeLog[i].likeCount = likeLog[i].response.count
            /\ likeLog[i].isLiked = likeLog[i].response.liked

\* C23: when a view that shows 0 likes and no like of the identity makes the
\* only two toggles of a run, one after the other, and both succeed, the
\* first leaves it showing count 1 and liked, the second count 0 and not
\* liked, and the table holds no like again.
C23_TwoTogglesRoundTrip ==
    (/\ Len(likeLog) = 2
     /\ toggles = 2
     /\ likeLog[1].view = likeLog[2].view
     /\ likeLog[1].ok /\ likeLog[2].ok
     /\ likeLog[1].seq = 1 /\ likeLog[2].after = 1
     /\ likeLog[1].shown = [count |-> 0, liked |-> FALSE]) =>
        /\ likeLog[1].likeCount = 1 /\ likeLog[1].isLiked
        /\ likeLog[2].likeCount = 0 /\ ~likeLog[2].isLiked
        /\ views[likeLog[2].view].likeCount = 0
        /\ ~views[likeLog[2].view].isLiked
        /\ LikeCount(likes) = 0

\* a view toggled twice in a row from 0 likes and is back where it started
C23_Witness ==
    /\ Len(likeLog) = 2
    /\ likeLog[1].view = likeLog[2].view
    /\ likeLog[1].ok /\ likeLog[2].ok
    /\ likeLog[2].after = 1
    /\ likeLog[1].shown = [count |-> 0, liked |-> FALSE]
    /\ likeLog[1].likeCount = 1
    /\ views[likeLog[2].view].likeCount = 0
    /\ views[likeLog[2].view].kind = "IssueDetailModal"


\* C24: no subscription of a view that is not mounted stays active, none of
\* the modal's comments feed or auth-change listener stays active while the
\* modal is closed, and no subscription is unsubscribed twice.
C24_NoSubscriptionOutlivesItsView ==
    /\ \A s \in ActiveSubscriptions :
           /\ s.view \in mounted
           /\ (s.view = "IssueDetailModal" /\ s.feed \in {"comments_changes", "auth"})
                  => isOpen
    /\ \A s \in BagToSet(unsubscribed) : CopiesIn(s, unsubscribed) = 1


\* C25: when the registration form is submitted with a password that differs
\* from its confirmation, a password shorter than 6 characters or a name
\* without any character but blanks, the step sets the error message, sends
\* no register_user request, starts no call and leaves the form not loading.
C25_ValidationFailsBeforeRequest ==
    [][(/\ submits' = submits + 1
        /\ \/ register.password # register.confirmPassword
           \/ Len(register.password) < 6
           \/ \A i \in 1..Len(register.emri) : register.emri[i] = " ")
          => /\ register'.error \in {"Passwords do not match",
                                     "Password must be at least 6 characters long",
                                     "Name is required"}
             /\ ~register'.loading
             /\ registerRequests' = registerRequests
             /\ registerCalls' = registerCalls]_vars

\* the form was submitted with a blank name and equal passwords of 6
\* characters, after a request of an earlier submit had been sent
C25_Witness ==
    /\ submits = 2
    /\ Len(registerRequests) = 1
    /\ register.error = "Name is required"
    /\ register.password = register.confirmPassword
    /\ Len(register.password) = 6
    /\ register.emri = <<" ">>
    /\ ~register.loading

====
